---- MODULE Spec2Model ----
(***************************************************************************)
(* Model of the forecasting core of cyberintel/threat_forecast.py:         *)
(*   - get_threat_forecast: the JSON recovery cascade applied to the raw   *)
(*     LLM response text, followed by post-processing of the recovered     *)
(*     value;                                                              *)
(*   - forecast_threats: the token-budget compression loop built on        *)
(*     compress_feature_records and estimate_prompt_and_cost.              *)
(*                                                                         *)
(* A text is a sequence of one-character strings.  Positions are 1-based   *)
(* (Python index i is position i+1); 0 plays the role of Python's -1 /     *)
(* None for "not found".                                                   *)
(***************************************************************************)
EXTENDS Integers, Sequences, FiniteSets, TLC

DQ == "\""
SQ == "'"
BS == "\\"
NL == "\n"
SP == " "
\* the backtick character (the module syntax has no literal for it)
BT == "BACKTICK"

Quotes == {DQ, SQ}
\* str.strip() / regex \s / JSON whitespace, restricted to the characters texts use
Whitespace == {SP, NL}
Digits == {"0", "1", "2", "3", "4", "5", "6", "7", "8", "9"}
Letters ==
  {"a", "b", "c", "d", "e", "f", "g", "h", "i", "j", "k", "l", "m", "n", "o",
   "p", "q", "r", "s", "t", "u", "v", "w", "x", "y", "z",
   "A", "B", "C", "D", "E", "F", "G", "H", "I", "J", "K", "L", "M", "N", "O",
   "P", "Q", "R", "S", "T", "U", "V", "W", "X", "Y", "Z"}

Fence == <<BT, BT, BT>>
FenceJson == <<BT, BT, BT, "j", "s", "o", "n">>

(***************************************************************************)
(* Python string helpers                                                   *)
(***************************************************************************)

\* s[a-1:b-1] for 1 <= a and b <= Len(s)+1 : positions a .. b-1
Slice(s, a, b) == IF b <= a THEN <<>> ELSE SubSeq(s, a, b - 1)

StartsWithAt(s, pat, i) ==
  /\ i >= 1
  /\ i + Len(pat) - 1 <= Len(s)
  /\ \A k \in 1..Len(pat) : s[i + k - 1] = pat[k]

\* str.find(pat, start): least position >= start where pat occurs, 0 if none
Find(s, pat, start) ==
  LET hits == {i \in start..(Len(s) - Len(pat) + 1) : StartsWithAt(s, pat, i)}
  IN  IF hits = {} THEN 0 ELSE CHOOSE i \in hits : \A j \in hits : i <= j

\* position of the last occurrence of pat (str.rsplit(pat, 1) cuts there), 0 if none
RFind(s, pat) ==
  LET hits == {i \in 1..(Len(s) - Len(pat) + 1) : StartsWithAt(s, pat, i)}
  IN  IF hits = {} THEN 0 ELSE CHOOSE i \in hits : \A j \in hits : i >= j

\* str.strip()
Strip(s) ==
  LET keep == {i \in 1..Len(s) : s[i] \notin Whitespace}
  IN  IF keep = {} THEN <<>>
      ELSE LET lo == CHOOSE i \in keep : \A j \in keep : i <= j
               hi == CHOOSE i \in keep : \A j \in keep : i >= j
           IN  SubSeq(s, lo, hi)

\* first position >= i holding a non-whitespace character (Len(s)+1 if none)
RECURSIVE SkipWs(_, _)
SkipWs(s, i) ==
  IF i <= Len(s) /\ s[i] \in Whitespace THEN SkipWs(s, i + 1) ELSE i

\* re.sub of the trailing-comma pattern: a comma, the whitespace after it and a
\* closer are replaced by the closer alone; matches are found left to right
RECURSIVE StripTrailingCommasFrom(_, _)
StripTrailingCommasFrom(s, i) ==
  IF i > Len(s) THEN <<>>
  ELSE LET j == SkipWs(s, i + 1)
       IN  IF s[i] = "," /\ j <= Len(s) /\ s[j] \in {"}", "]"}
           THEN <<s[j]>> \o StripTrailingCommasFrom(s, j + 1)
           ELSE <<s[i]>> \o StripTrailingCommasFrom(s, i + 1)

StripTrailingCommas(s) == StripTrailingCommasFrom(s, 1)

\* str.replace: every single quote becomes a double quote
SingleToDouble(s) == [i \in 1..Len(s) |-> IF s[i] = SQ THEN DQ ELSE s[i]]

\* Optional[str]: None is [some |-> FALSE], a string is [some |-> TRUE, text |-> s]
NoneText == [some |-> FALSE, text |-> <<>>]
SomeText(s) == [some |-> TRUE, text |-> s]
\* truthiness of an Optional[str]: None and the empty string are both falsy
Truthy(o) == o.some /\ o.text # <<>>

(***************************************************************************)
(* try_fenced                                                              *)
(***************************************************************************)
try_fenced(text) ==
  LET j     == Find(text, FenceJson, 1)
      jst   == j + 7
      jend  == Find(text, Fence, jst)
      f     == Find(text, Fence, 1)
      fst   == f + 3
      fend  == Find(text, Fence, fst)
  IN  IF j # 0 /\ jend # 0 THEN SomeText(Strip(Slice(text, jst, jend)))
      ELSE IF f # 0 /\ fend # 0 THEN SomeText(Strip(Slice(text, fst, fend)))
      ELSE NoneText

(***************************************************************************)
(* extract_first_braced                                                    *)
(* The scanner state after each character; found is the position of the    *)
(* closing brace at which the function returns (0 while scanning).         *)
(***************************************************************************)
efb_init == [start |-> 0, depth |-> 0, in_string |-> FALSE, esc |-> FALSE,
             quote_char |-> "", found |-> 0]

efb_step(st, ch, i) ==
  IF st.found # 0 THEN st
  ELSE IF st.start = 0
       THEN IF ch = "{" THEN [st EXCEPT !.start = i, !.depth = 1] ELSE st
  ELSE IF st.esc THEN [st EXCEPT !.esc = FALSE]
  ELSE IF ch = BS THEN [st EXCEPT !.esc = TRUE]
  ELSE IF st.in_string
       THEN IF ch = st.quote_char
            THEN [st EXCEPT !.in_string = FALSE, !.quote_char = ""]
            ELSE st
  ELSE IF ch \in Quotes THEN [st EXCEPT !.in_string = TRUE, !.quote_char = ch]
  ELSE IF ch = "{" THEN [st EXCEPT !.depth = @ + 1]
  ELSE IF ch = "}"
       THEN IF st.depth - 1 = 0
            THEN [st EXCEPT !.depth = 0, !.found = i]
            ELSE [st EXCEPT !.depth = @ - 1]
  ELSE st

\* state after the first i characters of s
RECURSIVE efb_state(_, _)
efb_state(s, i) == IF i = 0 THEN efb_init ELSE efb_step(efb_state(s, i - 1), s[i], i)

extract_first_braced(s) ==
  LET st == efb_state(s, Len(s))
  IN  IF st.found # 0 THEN SomeText(SubSeq(s, st.start, st.found)) ELSE NoneText

(***************************************************************************)
(* find_largest_balanced                                                   *)
(***************************************************************************)
flb_init == [starts |-> <<>>, results |-> <<>>, in_string |-> FALSE, esc |-> FALSE,
             quote_char |-> "", depth |-> 0]

flb_step(st, ch, i) ==
  IF st.esc THEN [st EXCEPT !.esc = FALSE]
  ELSE IF ch = BS THEN [st EXCEPT !.esc = TRUE]
  ELSE IF st.in_string
       THEN IF ch = st.quote_char
            THEN [st EXCEPT !.in_string = FALSE, !.quote_char = ""]
            ELSE st
  ELSE IF ch \in Quotes THEN [st EXCEPT !.in_string = TRUE, !.quote_char = ch]
  ELSE IF ch = "{"
       THEN [st EXCEPT !.starts = IF st.depth = 0 THEN Append(@, i) ELSE @,
                       !.depth = @ + 1]
  ELSE IF ch = "}"
       THEN LET d == IF st.depth - 1 < 0 THEN 0 ELSE st.depth - 1
            IN  IF d = 0 /\ st.starts # <<>>
                THEN [st EXCEPT !.depth = d,
                                !.starts = Tail(@),
                                !.results = Append(@, <<Head(st.starts), i>>)]
                ELSE [st EXCEPT !.depth = d]
  ELSE st

RECURSIVE flb_state(_, _)
flb_state(s, i) == IF i = 0 THEN flb_init ELSE flb_step(flb_state(s, i - 1), s[i], i)

\* max(results, key=len): the first of the longest spans
LongestSpan(results) ==
  CHOOSE k \in 1..Len(results) :
    /\ \A j \in 1..Len(results) :
         results[j][2] - results[j][1] <= results[k][2] - results[k][1]
    /\ \A j \in 1..(k - 1) :
         results[j][2] - results[j][1] < results[k][2] - results[k][1]

find_largest_balanced(s) ==
  LET Span(sp) == SomeText(SubSeq(s, sp[1], sp[2]))
      Longest(res) == IF res # <<>> THEN Span(res[LongestSpan(res)]) ELSE NoneText
  IN  Longest(flb_state(s, Len(s)).results)

(***************************************************************************)
(* Values of json.loads / ast.literal_eval                                 *)
(* Every value is a record of one shape: t is the Python type, n the       *)
(* number, s the characters of the string, items the members in insertion  *)
(* order (k is the dict key, NoKey for the elements of a list, tuple or    *)
(* set).                                                                   *)
(***************************************************************************)
NoKey == [t |-> "nokey", n |-> 0, s |-> <<>>, items |-> <<>>]
NoneV == [t |-> "none", n |-> 0, s |-> <<>>, items |-> <<>>]
IntV(n) == [t |-> "int", n |-> n, s |-> <<>>, items |-> <<>>]
BoolV(b) == [t |-> "bool", n |-> IF b THEN 1 ELSE 0, s |-> <<>>, items |-> <<>>]
StrV(str) == [t |-> "str", n |-> 0, s |-> str, items |-> <<>>]
ListV(items) == [t |-> "list", n |-> 0, s |-> <<>>, items |-> items]
TupleV(items) == [t |-> "tuple", n |-> 0, s |-> <<>>, items |-> items]
SetV(items) == [t |-> "set", n |-> 0, s |-> <<>>, items |-> items]
DictV(items) == [t |-> "dict", n |-> 0, s |-> <<>>, items |-> items]
Elem(v) == [k |-> NoKey, v |-> v]
Entry(k, v) == [k |-> k, v |-> v]

\* hash(v) is defined: literal_eval raises TypeError for an unhashable dict key
\* or set element
Hashable(v) == v.t \notin {"list", "dict", "set"}

\* d[k] = v on an insertion-ordered dict: a repeated key keeps its place
DictPut(items, k, v) ==
  IF \E x \in 1..Len(items) : items[x].k = k
  THEN [x \in 1..Len(items) |-> IF items[x].k = k THEN Entry(k, v) ELSE items[x]]
  ELSE Append(items, Entry(k, v))

SetAdd(items, v) ==
  IF \E x \in 1..Len(items) : items[x].v = v THEN items ELSE Append(items, Elem(v))

(***************************************************************************)
(* json.loads and ast.literal_eval as recursive-descent parsers over the   *)
(* characters of the text.  mode is "json" or "py".  A parse result is     *)
(* [ok, pos, val]: pos is the position after the parsed value.  ok = FALSE *)
(* stands for the exception the Python call raises.                        *)
(* Lexical scope: integers are digit runs (no sign, fraction, exponent,    *)
(* radix prefix or underscore), strings carry no prefix letter, and the    *)
(* py mode has no parentheses, comments or line continuations.             *)
(***************************************************************************)
Bad == [ok |-> FALSE, pos |-> 0, val |-> NoneV]
Good(pos, val) == [ok |-> TRUE, pos |-> pos, val |-> val]

\* the character at position i, the empty string past the end
At(s, i) == IF i >= 1 /\ i <= Len(s) THEN s[i] ELSE ""

HexDigits == Digits \cup {"a", "b", "c", "d", "e", "f", "A", "B", "C", "D", "E", "F"}
IdentChars == Letters \cup Digits \cup {"_"}

\* chr(code) for the printable ASCII codes 32..126
Ascii ==
  <<" ", "!", DQ, "#", "$", "%", "&", "'", "(", ")", "*", "+",
   ",", "-", ".", "/", "0", "1", "2", "3", "4", "5", "6", "7",
   "8", "9", ":", ";", "<", "=", ">", "?", "@", "A", "B", "C",
   "D", "E", "F", "G", "H", "I", "J", "K", "L", "M", "N", "O",
   "P", "Q", "R", "S", "T", "U", "V", "W", "X", "Y", "Z", "[",
   BS, "]", "^", "_", BT, "a", "b", "c", "d", "e", "f", "g",
   "h", "i", "j", "k", "l", "m", "n", "o", "p", "q", "r", "s",
   "t", "u", "v", "w", "x", "y", "z", "{", "|", "}", "~">>

\* chr(code): the character with that code point
Chr(code) ==
  IF code = 10 THEN NL
  ELSE IF code = 9 THEN "\t"
  ELSE IF code >= 32 /\ code <= 126 THEN Ascii[code - 31]
  ELSE "<chr" \o ToString(code) \o ">"

HexVal(c) ==
  IF c \in Digits THEN CHOOSE d \in 0..9 : ToString(d) = c
  ELSE IF c \in {"a", "A"} THEN 10
  ELSE IF c \in {"b", "B"} THEN 11
  ELSE IF c \in {"c", "C"} THEN 12
  ELSE IF c \in {"d", "D"} THEN 13
  ELSE IF c \in {"e", "E"} THEN 14
  ELSE 15

RECURSIVE HexNum(_)
HexNum(ds) ==
  IF ds = <<>> THEN 0
  ELSE 16 * HexNum(SubSeq(ds, 1, Len(ds) - 1)) + HexVal(ds[Len(ds)])

RECURSIVE OctNum(_)
OctNum(ds) ==
  IF ds = <<>> THEN 0
  ELSE 8 * OctNum(SubSeq(ds, 1, Len(ds) - 1)) + HexVal(ds[Len(ds)])

OctDigits == {"0", "1", "2", "3", "4", "5", "6", "7"}

\* the one-letter escapes: \b \f \n \r \t of both grammars, \a \v of Python
EscapeCode(e) ==
  IF e = "n" THEN 10
  ELSE IF e = "t" THEN 9
  ELSE IF e = "r" THEN 13
  ELSE IF e = "b" THEN 8
  ELSE IF e = "f" THEN 12
  ELSE IF e = "a" THEN 7
  ELSE 11

\* the decoded body of a string literal whose opening quote q is at i - 1;
\* the result val is a StrV.  No \U or \N escapes.
RECURSIVE StrBody(_, _, _, _, _, _)
StrBody(s, i, q, mode, triple, acc) ==
  LET ch == At(s, i)
      e  == At(s, i + 1)
      \* the run of up to three octal digits after the backslash
      on == IF At(s, i + 2) \notin OctDigits THEN 1
            ELSE IF At(s, i + 3) \notin OctDigits THEN 2 ELSE 3
  IN  IF ch = "" THEN Bad
      ELSE IF triple /\ StartsWithAt(s, <<q, q, q>>, i) THEN Good(i + 3, StrV(acc))
      ELSE IF ~triple /\ ch = q THEN Good(i + 1, StrV(acc))
      ELSE IF ch = NL /\ ~triple THEN Bad
      ELSE IF ch = BS
           THEN IF e = "" THEN Bad
                ELSE IF e \in {BS, DQ} THEN StrBody(s, i + 2, q, mode, triple, Append(acc, e))
                ELSE IF e \in {"b", "f", "n", "r", "t"}
                     THEN StrBody(s, i + 2, q, mode, triple, Append(acc, Chr(EscapeCode(e))))
                ELSE IF e = "u"
                     THEN IF \A k \in 2..5 : At(s, i + k) \in HexDigits
                          THEN StrBody(s, i + 6, q, mode, triple,
                                       Append(acc, Chr(HexNum(SubSeq(s, i + 2, i + 5)))))
                          ELSE Bad
                ELSE IF mode = "json"
                     THEN IF e = "/" THEN StrBody(s, i + 2, q, mode, triple, Append(acc, e))
                          ELSE Bad
                ELSE IF e = SQ THEN StrBody(s, i + 2, q, mode, triple, Append(acc, e))
                ELSE IF e = NL THEN StrBody(s, i + 2, q, mode, triple, acc)
                ELSE IF e \in {"a", "v"}
                     THEN StrBody(s, i + 2, q, mode, triple, Append(acc, Chr(EscapeCode(e))))
                ELSE IF e \in OctDigits
                     THEN StrBody(s, i + 1 + on, q, mode, triple,
                                  Append(acc, Chr(OctNum(SubSeq(s, i + 1, i + on)))))
                ELSE IF e = "x"
                     THEN IF \A k \in 2..3 : At(s, i + k) \in HexDigits
                          THEN StrBody(s, i + 4, q, mode, triple,
                                       Append(acc, Chr(HexNum(SubSeq(s, i + 2, i + 3)))))
                          ELSE Bad
                ELSE IF e \in {"U", "N"} THEN Bad
                ELSE StrBody(s, i + 2, q, mode, triple, acc \o <<BS, e>>)
      ELSE StrBody(s, i + 1, q, mode, triple, Append(acc, ch))

\* one string literal starting at the quote at position i
StrLit(s, i, mode) ==
  LET q == s[i]
  IN  IF mode = "py" /\ StartsWithAt(s, <<q, q, q>>, i)
      THEN StrBody(s, i + 3, q, mode, TRUE, <<>>)
      ELSE StrBody(s, i + 1, q, mode, FALSE, <<>>)

\* py: adjacent string literals are concatenated
RECURSIVE StrConcat(_, _, _, _)
StrConcat(s, i, mode, acc) ==
  LET After(r) ==
        LET j == IF r.ok THEN SkipWs(s, r.pos) ELSE 0
        IN  IF ~r.ok THEN Bad
            ELSE IF mode = "py" /\ At(s, j) \in Quotes
                 THEN StrConcat(s, j, mode, acc \o r.val.s)
            ELSE Good(r.pos, StrV(acc \o r.val.s))
  IN  After(StrLit(s, i, mode))

RECURSIVE DigitRunEnd(_, _)
DigitRunEnd(s, i) == IF At(s, i) \in Digits THEN DigitRunEnd(s, i + 1) ELSE i

RECURSIVE IdentEnd(_, _)
IdentEnd(s, i) == IF At(s, i) \in IdentChars THEN IdentEnd(s, i + 1) ELSE i

DigitVal(c) == CHOOSE d \in 0..9 : ToString(d) = c

RECURSIVE DecimalVal(_)
DecimalVal(ds) ==
  IF ds = <<>> THEN 0
  ELSE 10 * DecimalVal(SubSeq(ds, 1, Len(ds) - 1)) + DigitVal(ds[Len(ds)])

\* json: 0 | [1-9][0-9]* (a digit after a leading 0 is left for the caller, which
\* rejects it); py: a digit run with no leading zero unless it is all zeros
Number(s, i, mode) ==
  LET j  == DigitRunEnd(s, i)
      ds == SubSeq(s, i, j - 1)
  IN  IF mode = "json"
      THEN IF s[i] = "0" THEN Good(i + 1, IntV(0)) ELSE Good(j, IntV(DecimalVal(ds)))
      ELSE IF s[i] = "0" /\ \E k \in 1..Len(ds) : ds[k] # "0" THEN Bad
      ELSE Good(j, IntV(DecimalVal(ds)))

Keyword(s, i, mode) ==
  IF mode = "json"
  THEN IF StartsWithAt(s, <<"n", "u", "l", "l">>, i) THEN Good(i + 4, NoneV)
       ELSE IF StartsWithAt(s, <<"t", "r", "u", "e">>, i) THEN Good(i + 4, BoolV(TRUE))
       ELSE IF StartsWithAt(s, <<"f", "a", "l", "s", "e">>, i) THEN Good(i + 5, BoolV(FALSE))
       ELSE Bad
  ELSE LET j == IdentEnd(s, i)
           w == SubSeq(s, i, j - 1)
       IN  IF w = <<"N", "o", "n", "e">> THEN Good(j, NoneV)
           ELSE IF w = <<"T", "r", "u", "e">> THEN Good(j, BoolV(TRUE))
           ELSE IF w = <<"F", "a", "l", "s", "e">> THEN Good(j, BoolV(FALSE))
           ELSE Bad

RECURSIVE ParseValue(_, _, _)
RECURSIVE ParseElems(_, _, _, _, _, _)
RECURSIVE ParseMembers(_, _, _, _)

\* the value starting at position i (i holds no whitespace)
ParseValue(s, i, mode) ==
  LET c == At(s, i)
  IN  IF c = "" THEN Bad
      ELSE IF c = DQ \/ (c = SQ /\ mode = "py") THEN StrConcat(s, i, mode, <<>>)
      ELSE IF c \in Digits THEN Number(s, i, mode)
      ELSE IF c \in Letters THEN Keyword(s, i, mode)
      ELSE IF c = "["
           THEN LET AsList(r) == IF r.ok THEN Good(r.pos, ListV(r.val.items)) ELSE Bad
                IN  AsList(ParseElems(s, i + 1, mode, "]", <<>>, FALSE))
      ELSE IF c = "{"
           THEN IF mode = "json" THEN ParseMembers(s, i + 1, mode, <<>>)
                ELSE LET j == SkipWs(s, i + 1)
                         AsSet(r) == IF r.ok THEN Good(r.pos, SetV(r.val.items)) ELSE Bad
                         \* r1 is the first element or key: a colon after it makes
                         \* the display a dict, anything else a set
                         Display(r1) ==
                           LET k == IF r1.ok THEN SkipWs(s, r1.pos) ELSE 0
                           IN  IF At(s, j) = "}" THEN Good(j + 1, DictV(<<>>))
                               ELSE IF ~r1.ok THEN Bad
                               ELSE IF At(s, k) = ":" THEN ParseMembers(s, i + 1, mode, <<>>)
                               ELSE AsSet(ParseElems(s, i + 1, mode, "}", <<>>, TRUE))
                     IN  Display(ParseValue(s, j, mode))
      ELSE Bad

\* the comma-separated values up to the closer; i follows the opener or a
\* comma.  A trailing comma before the closer is accepted in py mode only.
\* uniq: the elements are those of a set (hashable, no duplicates)
ParseElems(s, i, mode, close, acc, uniq) ==
  LET j == SkipWs(s, i)
      After(r) ==
        LET k == IF r.ok THEN SkipWs(s, r.pos) ELSE 0
            a == IF uniq THEN SetAdd(acc, r.val) ELSE Append(acc, Elem(r.val))
        IN  IF At(s, j) = close
            THEN IF acc = <<>> \/ mode = "py" THEN Good(j + 1, ListV(acc)) ELSE Bad
            ELSE IF ~r.ok THEN Bad
            ELSE IF uniq /\ ~Hashable(r.val) THEN Bad
            ELSE IF At(s, k) = "," THEN ParseElems(s, k + 1, mode, close, a, uniq)
            ELSE IF At(s, k) = close THEN Good(k + 1, ListV(a))
            ELSE Bad
  IN  After(ParseValue(s, j, mode))

\* the key : value members of an object up to the closing brace; i follows
\* the opening brace or a comma
ParseMembers(s, i, mode, acc) ==
  LET j == SkipWs(s, i)
      AfterValue(rk, rv) ==
        LET l == IF rv.ok THEN SkipWs(s, rv.pos) ELSE 0
            a == DictPut(acc, rk.val, rv.val)
        IN  IF At(s, j) = "}"
            THEN IF acc = <<>> \/ mode = "py" THEN Good(j + 1, DictV(acc)) ELSE Bad
            ELSE IF ~rk.ok \/ ~rv.ok THEN Bad
            ELSE IF ~Hashable(rk.val) THEN Bad
            ELSE IF At(s, l) = "," THEN ParseMembers(s, l + 1, mode, a)
            ELSE IF At(s, l) = "}" THEN Good(l + 1, DictV(a))
            ELSE Bad
      AfterKey(rk) ==
        LET k == IF rk.ok THEN SkipWs(s, rk.pos) ELSE 0
        IN  AfterValue(rk, IF rk.ok /\ At(s, k) = ":"
                           THEN ParseValue(s, SkipWs(s, k + 1), mode) ELSE Bad)
  IN  AfterKey(IF mode = "json" /\ At(s, j) # DQ THEN Bad ELSE ParseValue(s, j, mode))

\* py: the rest of an unparenthesised tuple after its first comma
RECURSIVE ParseTupleRest(_, _, _)
ParseTupleRest(s, i, acc) ==
  LET j == SkipWs(s, i)
      After(r) ==
        LET k == IF r.ok THEN SkipWs(s, r.pos) ELSE 0
        IN  IF j > Len(s) THEN Good(j, TupleV(acc))
            ELSE IF ~r.ok THEN Bad
            ELSE IF k > Len(s) THEN Good(k, TupleV(Append(acc, Elem(r.val))))
            ELSE IF At(s, k) = "," THEN ParseTupleRest(s, k + 1, Append(acc, Elem(r.val)))
            ELSE Bad
  IN  After(ParseValue(s, j, "py"))

\* json.loads(text): [ok, val]; ok = FALSE is JSONDecodeError
json_loads(text) ==
  LET Whole(r) == IF r.ok /\ SkipWs(text, r.pos) > Len(text)
                  THEN [ok |-> TRUE, val |-> r.val]
                  ELSE [ok |-> FALSE, val |-> NoneV]
  IN  Whole(ParseValue(text, SkipWs(text, 1), "json"))

\* literal evaluation that accepts no more than the JSON parser does, so that
\* a trailing comma is a syntax error in it as well
literal_eval_strict(text) == json_loads(text)

\* ast.literal_eval(text): ok = FALSE is SyntaxError, ValueError or TypeError
literal_eval(text) ==
  LET Whole(r) ==
        LET k == IF r.ok THEN SkipWs(text, r.pos) ELSE 0
            Tuple(t) == IF t.ok THEN [ok |-> TRUE, val |-> t.val]
                        ELSE [ok |-> FALSE, val |-> NoneV]
        IN  IF r.ok /\ k > Len(text) THEN [ok |-> TRUE, val |-> r.val]
            ELSE IF r.ok /\ At(text, k) = ","
                 THEN Tuple(ParseTupleRest(text, k + 1, <<Elem(r.val)>>))
            ELSE [ok |-> FALSE, val |-> NoneV]
  IN  Whole(ParseValue(text, SkipWs(text, 1), "py"))

(***************************************************************************)
(* autoclose_and_clean                                                     *)
(***************************************************************************)
\* re.sub of a leading fence line: three backticks, letters, a newline, at
\* the very start of s
StripFenceLine(s) ==
  LET j == IF StartsWithAt(s, Fence, 1)
           THEN CHOOSE k \in 4..(Len(s) + 1) :
                  /\ \A x \in 4..(k - 1) : s[x] \in Letters
                  /\ At(s, k) \notin Letters
           ELSE 0
  IN  IF j # 0 /\ At(s, j) = NL THEN SubSeq(s, j + 1, Len(s)) ELSE s

\* s.rsplit(fence, 1)[0]: the text before the last fence, all of s if none
BeforeLastFence(s) ==
  LET r == RFind(s, Fence) IN IF r = 0 THEN s ELSE SubSeq(s, 1, r - 1)

ac_init == [brace_depth |-> 0, bracket_depth |-> 0, in_string |-> FALSE,
            esc |-> FALSE, quote_char |-> ""]

ac_step(st, ch) ==
  IF st.esc THEN [st EXCEPT !.esc = FALSE]
  ELSE IF ch = BS THEN [st EXCEPT !.esc = TRUE]
  ELSE IF st.in_string
       THEN IF ch = st.quote_char
            THEN [st EXCEPT !.in_string = FALSE, !.quote_char = ""]
            ELSE st
  ELSE IF ch \in Quotes THEN [st EXCEPT !.in_string = TRUE, !.quote_char = ch]
  ELSE IF ch = "{" THEN [st EXCEPT !.brace_depth = @ + 1]
  ELSE IF ch = "}" THEN [st EXCEPT !.brace_depth = IF @ - 1 < 0 THEN 0 ELSE @ - 1]
  ELSE IF ch = "[" THEN [st EXCEPT !.bracket_depth = @ + 1]
  ELSE IF ch = "]" THEN [st EXCEPT !.bracket_depth = IF @ - 1 < 0 THEN 0 ELSE @ - 1]
  ELSE st

RECURSIVE ac_state(_, _)
ac_state(s, i) == IF i = 0 THEN ac_init ELSE ac_step(ac_state(s, i - 1), s[i])

Repeat(ch, n) == [i \in 1..n |-> ch]

\* the text the depth scan runs on: fence markers removed, then trailing
\* commas before closers removed
ac_cleaned(s) ==
  LET s1 == IF StartsWithAt(Strip(s), Fence, 1)
            THEN BeforeLastFence(StripFenceLine(s))
            ELSE s
  IN  StripTrailingCommas(s1)

\* the candidate: the cleaned text with the missing closers appended
ac_candidate(s) ==
  LET Closed(c, st) == c \o Repeat("]", st.bracket_depth) \o Repeat("}", st.brace_depth)
      Scan(c) == Closed(c, ac_state(c, Len(c)))
  IN  Scan(ac_cleaned(s))

autoclose_and_clean(s) ==
  LET Second(candidate2) == IF json_loads(candidate2).ok THEN SomeText(candidate2)
                            ELSE NoneText
      First(candidate) == IF json_loads(candidate).ok THEN SomeText(candidate)
                          ELSE Second(SingleToDouble(candidate))
  IN  First(ac_candidate(s))

\* try: json.loads(text) except: try: ast.literal_eval(text) except: None
JsonThenLiteral(text) ==
  LET Second(rl) == IF rl.ok THEN rl.val ELSE NoneV
      First(rj) == IF rj.ok THEN rj.val ELSE Second(literal_eval(text))
  IN  First(json_loads(text))

(***************************************************************************)
(* Raw LLM response texts                                                  *)
(***************************************************************************)
\* a well-formed object
T_Valid ==
  <<"{", DQ, "a", DQ, ":", "1", "}">>
\* an object with a trailing comma before its closing brace
T_TrailingComma ==
  <<"{", DQ, "a", DQ, ":", "1", ",", "}">>
\* an object truncated mid-array directly after a comma
T_TruncatedArray ==
  <<"{", DQ, "a", DQ, ":", "[", "1", ",", "2", ",">>
\* an object truncated after a complete value
T_TruncatedObject ==
  <<"{", DQ, "a", DQ, ":", "1">>
\* a string value containing braces
T_BraceInString ==
  <<"{", DQ, "d", "e", "s", "c", DQ, ":", DQ, "a", "{", "b", "}", "c", DQ,
  "}">>
\* prose, then an object whose string value contains braces
T_ProseBraceInString ==
  <<"x", SP, "{", DQ, "d", "e", "s", "c", DQ, ":", DQ, "a", "{", "b", "}",
  "c", DQ, "}">>
\* a quoted brace before the first structural brace
T_QuotedBraceFirst ==
  <<DQ, "{", DQ, SP, "{", DQ, "a", DQ, ":", "1", "}">>
\* a balanced block that no parser accepts
T_Bare ==
  <<"{", "a", "}">>
\* prose with no brace and no fence
T_NoBrace ==
  <<"x">>
\* valid JSON in a json fence between prose
T_Fenced ==
  <<"S", "u", "r", "e", ":", NL, BT, BT, BT, "j", "s", "o", "n", NL, "{",
  DQ, "a", DQ, ":", "1", "}", NL, BT, BT, BT, NL, "o", "k">>
\* a fenced array with a JSON keyword and a trailing comma, no brace anywhere
T_FencedTrailingNull ==
  <<BT, BT, BT, "[", "n", "u", "l", "l", ",", "]", BT, BT, BT>>
\* a fenced array with single quotes and a JSON keyword
T_FencedQuotedNull ==
  <<BT, BT, BT, "[", SQ, "a", SQ, ",", "n", "u", "l", "l", "]", BT, BT, BT>>
\* a fenced JSON null
T_FencedNull ==
  <<BT, BT, BT, "n", "u", "l", "l", BT, BT, BT>>
\* a fenced object truncated inside an array
T_FencedTruncated ==
  <<BT, BT, BT, "j", "s", "o", "n", NL, "{", DQ, "a", DQ, ":", "[", "1", NL,
  BT, BT, BT>>
\* a well-formed JSON string whose content holds a fenced object
T_StringWithFence ==
  <<DQ, BT, BT, BT, "{", "}", BT, BT, BT, DQ>>
\* an object written with single quotes
T_SingleQuotes ==
  <<"{", SQ, "a", SQ, ":", "1", "}">>
\* an unparsable block followed by a longer valid one
T_TwoBlocks ==
  <<"{", "a", "}", SP, "{", DQ, "a", DQ, ":", "1", "}">>
\* a block no parser accepts, then a shorter block that is valid JSON
T_LongestUnparsable ==
  <<"{", "a", "}", SP, "{", "}">>
\* a nested object truncated after the innermost value
T_TruncatedNested ==
  <<"{", DQ, "a", DQ, ":", "[", "{", DQ, "b", DQ, ":", "1">>
\* the same object truncated after the inner object
T_TruncatedAfterInner ==
  <<"{", DQ, "a", DQ, ":", "[", "{", DQ, "b", DQ, ":", "1", "}">>
\* a JSON keyword and a trailing comma
T_KeywordTrailingComma ==
  <<"{", DQ, "a", DQ, ":", "t", "r", "u", "e", ",", "}">>
\* a well-formed JSON number
T_Number ==
  <<"1">>
\* a well-formed JSON array
T_List ==
  <<"[", "1", "]">>

Corpus ==
  {T_Valid, T_TrailingComma, T_TruncatedArray, T_TruncatedObject,
   T_BraceInString, T_ProseBraceInString, T_QuotedBraceFirst, T_Bare,
   T_NoBrace, T_Fenced, T_FencedTrailingNull, T_FencedQuotedNull,
   T_FencedNull, T_FencedTruncated, T_StringWithFence, T_SingleQuotes,
   T_TwoBlocks, T_LongestUnparsable, T_TruncatedNested,
   T_TruncatedAfterInner, T_KeywordTrailingComma, T_Number, T_List}

\* every text of at most MaxLen characters over GenAlphabet
MaxLen == 3
GenAlphabet == {"{", "}", "[", "]", DQ, SQ, ",", ":", "1", "a"}
GenTexts == UNION {[1..k -> GenAlphabet] : k \in 0..MaxLen}

\* texts that wrap a JSON text in a json fence: prose, the opening fence, the
\* interior, the closing fence, prose
I_Object == <<"{", DQ, "a", DQ, ":", "1", "}">>
I_Null == <<"n", "u", "l", "l">>
I_BacktickInString == <<"{", DQ, "a", DQ, ":", DQ, BT, DQ, "}">>
I_FenceInString == <<"{", DQ, "a", DQ, ":", DQ, BT, BT, BT, DQ, "}">>
I_FenceInArray == <<"[", DQ, BT, BT, BT, DQ, "]">>
Interiors == {I_Object, I_Null, I_BacktickInString, I_FenceInString, I_FenceInArray}
ProseBefore == {<<>>, <<"S", "u", "r", "e", ":", NL>>}
ProseAfter == {<<>>, <<NL, "o", "k">>}
FencedJsonCases == [pre : ProseBefore, interior : Interiors, post : ProseAfter]
Wrap(c) == c.pre \o FenceJson \o c.interior \o Fence \o c.post
FencedJsonTexts == {Wrap(c) : c \in FencedJsonCases}

ResponseTexts == Corpus \cup GenTexts \cup FencedJsonTexts

(***************************************************************************)
(* State                                                                   *)
(***************************************************************************)
VARIABLES
  pc,             \* position in get_threat_forecast
  response_text,  \* response.content
  json_text,      \* the span isolated by try_fenced / extract_first_braced
  span_from,      \* the strategy that isolated json_text
  parsed,         \* the local parsed (NoneV is Python None)
  tried,          \* the recovery strategies run so far on response_text
  via,            \* the strategy whose parse is the value recovered
  dump_files,     \* files present in the llm_responses directory
  error,          \* the exception that leaves get_threat_forecast
  forecast_data,  \* the recovered value under post-processing
  today,          \* datetime.utcnow().date(), as a day number
  fpc,               \* position in forecast_threats
  feature_records,   \* the local feature_records
  original_records,  \* feature_records as build_forecast_features returned it
  forecast_weeks,    \* the argument forecast_weeks
  dry_run,           \* the argument dry_run
  max_input_tokens,  \* settings.LLM_MAX_INPUT_TOKENS
  keep_recent_weeks, \* settings.LLM_RECENT_WEEKS_KEEP
  current_keep,      \* the local current_keep
  input_tokens,      \* the local input_tokens
  estimate,          \* the local estimate
  passes,            \* the keep_recent_weeks of each compress pass made so far
  llm_calls,         \* calls of get_threat_forecast made by forecast_threats
  result,            \* what forecast_threats returned
  user_message,      \* the user prompt get_threat_forecast sends to the LLM
  apc,               \* position in aggregate_weekly_worldwide
  events,            \* the rows of the data frame df
  agg,               \* the rows of the data frame agg, one per week
  clock,             \* datetime.utcnow(), in whole seconds
  invocations,       \* the invocations of get_threat_forecast that share llm_responses
  max_requests,      \* rate_cfg.get(max_requests, 1)
  rl_count,          \* the value cached under rl_key, 0 when the key is absent
  requests,          \* the requests of one client IP inside forecast_threats_api
  admitted,          \* requests past the limiter since rl_key was last absent
  cache_file,        \* the file FORECAST_CACHE_FILE
  latest_forecast,   \* the value cached under latest_forecast, 0 when there is none
  runs,              \* the forecast runs that store their result
  readers,           \* the requests inside get_latest_forecast
  generated,         \* forecasts generated so far, numbered in the order of generated_at
  stored             \* the newest forecast whose run has finished storing it, 0 when none

recover_vars == <<pc, response_text, json_text, span_from, parsed, tried, via,
                  dump_files, error, forecast_data, today>>

pipeline_vars == <<fpc, feature_records, original_records, forecast_weeks, dry_run,
                   max_input_tokens, keep_recent_weeks, current_keep, input_tokens,
                   estimate, passes, llm_calls, result, user_message>>

aggregate_vars == <<apc, events, agg>>

dump_vars == <<clock, invocations>>

limiter_vars == <<max_requests, rl_count, requests, admitted>>

latest_vars == <<cache_file, latest_forecast, runs, readers, generated, stored>>

views_vars == <<limiter_vars, latest_vars>>

vars == <<recover_vars, pipeline_vars, aggregate_vars, dump_vars, views_vars>>

Strategies == {"strict", "fenced", "braced", "literal", "largest", "repair", "autoclose"}

NoError == [raised |-> FALSE, type |-> "", parser_error |-> FALSE,
            path |-> FALSE, snippet |-> <<>>]

\* response_text[:2000]
SnippetLen == 2000
Snippet(text) == SubSeq(text, 1, IF Len(text) < SnippetLen THEN Len(text) ELSE SnippetLen)

\* where control goes once the nested try blocks have assigned parsed:
\* the check "if parsed is None" in front of the auto-close attempt
AfterParse(v) == IF v = NoneV THEN "autoclose" ELSE "recovered"

(***************************************************************************)
(* The recovery cascade of get_threat_forecast                             *)
(***************************************************************************)
\* the strict parse taken as failed whatever the text is
StrictParseSkipped ==
  /\ pc = "strict"
  /\ UNCHANGED <<pipeline_vars, aggregate_vars, dump_vars, views_vars>>
  /\ tried' = tried \cup {"strict"}
  /\ pc' = "fenced"
  /\ UNCHANGED <<forecast_data, via>>
  /\ UNCHANGED <<response_text, json_text, span_from, parsed, dump_files, error, today>>

\* forecast_data = json.loads(response_text)
StrictParse ==
  /\ pc = "strict"
  /\ UNCHANGED <<pipeline_vars, aggregate_vars, dump_vars, views_vars>>
  /\ LET Outcome(r) ==
           /\ tried' = tried \cup {"strict"}
           /\ IF r.ok
              THEN /\ forecast_data' = r.val
                   /\ via' = "strict"
                   /\ pc' = "post_monthly"
              ELSE /\ pc' = "fenced"
                   /\ UNCHANGED <<forecast_data, via>>
     IN  Outcome(json_loads(response_text))
  /\ UNCHANGED <<response_text, json_text, span_from, parsed, dump_files, error, today>>

\* json_text = try_fenced(response_text)
TryFenced ==
  /\ pc = "fenced"
  /\ UNCHANGED <<pipeline_vars, aggregate_vars, dump_vars, views_vars>>
  /\ json_text' = try_fenced(response_text)
  /\ span_from' = "fenced"
  /\ tried' = tried \cup {"fenced"}
  /\ pc' = IF ~Truthy(json_text') THEN "braced" ELSE "span"
  /\ UNCHANGED <<response_text, parsed, via, dump_files, error, forecast_data, today>>

\* if not json_text: json_text = extract_first_braced(response_text)
ExtractFirstBraced ==
  /\ pc = "braced"
  /\ UNCHANGED <<pipeline_vars, aggregate_vars, dump_vars, views_vars>>
  /\ json_text' = extract_first_braced(response_text)
  /\ span_from' = "braced"
  /\ tried' = tried \cup {"braced"}
  /\ pc' = "span"
  /\ UNCHANGED <<response_text, parsed, via, dump_files, error, forecast_data, today>>

\* parsed = None; if json_text: parsed = json.loads(json_text)
SpanParse ==
  /\ pc = "span"
  /\ UNCHANGED <<pipeline_vars, aggregate_vars, dump_vars, views_vars>>
  /\ IF ~Truthy(json_text)
     THEN /\ parsed' = NoneV
          /\ pc' = "autoclose"
          /\ UNCHANGED via
     ELSE LET Outcome(r) ==
                IF r.ok
                THEN /\ parsed' = r.val
                     /\ via' = IF r.val = NoneV THEN via ELSE span_from
                     /\ pc' = AfterParse(r.val)
                ELSE /\ parsed' = NoneV
                     /\ pc' = "literal"
                     /\ UNCHANGED via
          IN  Outcome(json_loads(json_text.text))
  /\ UNCHANGED <<response_text, json_text, span_from, tried, dump_files, error,
                 forecast_data, today>>

\* parsed = ast.literal_eval(json_text)
LiteralEval ==
  /\ pc = "literal"
  /\ UNCHANGED <<pipeline_vars, aggregate_vars, dump_vars, views_vars>>
  /\ tried' = tried \cup {"literal"}
  /\ LET Outcome(r) ==
           IF r.ok
           THEN /\ parsed' = r.val
                /\ via' = IF r.val = NoneV THEN via ELSE "literal"
                /\ pc' = AfterParse(r.val)
           ELSE /\ pc' = "largest"
                /\ UNCHANGED <<parsed, via>>
     IN  Outcome(literal_eval(json_text.text))
  /\ UNCHANGED <<response_text, json_text, span_from, dump_files, error,
                 forecast_data, today>>

\* balanced = find_largest_balanced(response_text) and the two parses of it;
\* with no balanced block control falls to the relaxed fixes
LargestBalanced ==
  /\ pc = "largest"
  /\ UNCHANGED <<pipeline_vars, aggregate_vars, dump_vars, views_vars>>
  /\ tried' = tried \cup {"largest"}
  /\ LET Parsed(v) ==
           /\ parsed' = v
           /\ via' = IF v = NoneV THEN via ELSE "largest"
           /\ pc' = AfterParse(v)
         Outcome(balanced) ==
           IF Truthy(balanced)
           THEN Parsed(JsonThenLiteral(balanced.text))
           ELSE /\ pc' = "repair"
                /\ UNCHANGED <<parsed, via>>
     IN  Outcome(find_largest_balanced(response_text))
  /\ UNCHANGED <<response_text, json_text, span_from, dump_files, error,
                 forecast_data, today>>

\* cleaned = re.sub(trailing commas, json_text); cleaned2 = single -> double quotes
SyntacticRepair ==
  /\ pc = "repair"
  /\ UNCHANGED <<pipeline_vars, aggregate_vars, dump_vars, views_vars>>
  /\ tried' = tried \cup {"repair"}
  /\ LET Parsed(v) ==
           /\ parsed' = v
           /\ via' = IF v = NoneV THEN via ELSE "repair"
           /\ pc' = AfterParse(v)
         Second(r2) == IF r2.ok THEN r2.val ELSE NoneV
         First(r1, cleaned) ==
           IF r1.ok THEN r1.val ELSE Second(json_loads(SingleToDouble(cleaned)))
         Repair(cleaned) == Parsed(First(json_loads(cleaned), cleaned))
     IN  Repair(StripTrailingCommas(json_text.text))
  /\ UNCHANGED <<response_text, json_text, span_from, dump_files, error,
                 forecast_data, today>>

\* closed = autoclose_and_clean(json_text or response_text) and its parse
AutoClose ==
  /\ pc = "autoclose"
  /\ UNCHANGED <<pipeline_vars, aggregate_vars, dump_vars, views_vars>>
  /\ tried' = tried \cup {"autoclose"}
  /\ LET Parsed(v) ==
           /\ parsed' = v
           /\ via' = IF v = NoneV THEN via ELSE "autoclose"
           /\ pc' = IF v = NoneV THEN "save" ELSE "recovered"
         Outcome(closed) ==
           Parsed(IF ~Truthy(closed) THEN NoneV ELSE JsonThenLiteral(closed.text))
     IN  Outcome(autoclose_and_clean(IF Truthy(json_text) THEN json_text.text
                                     ELSE response_text))
  /\ UNCHANGED <<response_text, json_text, span_from, dump_files, error,
                 forecast_data, today>>

\* forecast_data = parsed
Recovered ==
  /\ pc = "recovered"
  /\ UNCHANGED <<pipeline_vars, aggregate_vars, dump_vars, views_vars>>
  /\ forecast_data' = parsed
  /\ pc' = "post_monthly"
  /\ UNCHANGED <<response_text, json_text, span_from, parsed, tried, via, dump_files,
                 error, today>>

\* response_<ts>.txt with ts = utcnow().strftime(%Y%m%dT%H%M%SZ): the name holds
\* the UTC date and the second of the day, and nothing finer
DumpName(day, second) == [day |-> day, second |-> second]

\* open(fname, w) and write: a file of that name is replaced by the new text
WriteDump(files, name, text) ==
  {f \in files : f.name # name} \cup {[name |-> name, content |-> text]}

\* the ValueError raised after the write, and the OSError of a failed write
DumpedError(text) ==
  [raised |-> FALSE, type |-> "ValueError", parser_error |-> TRUE,
   path |-> TRUE, snippet |-> Snippet(text)]
NotDumpedError ==
  [raised |-> FALSE, type |-> "OSError", parser_error |-> FALSE,
   path |-> FALSE, snippet |-> <<>>]
\* the ValueError of the except clause, the one that leaves the function
FinalError(text) ==
  [raised |-> TRUE, type |-> "ValueError", parser_error |-> TRUE,
   path |-> FALSE, snippet |-> Snippet(text)]

\* the terminal failure: the raw text is written to llm_responses/response_<ts>.txt
\* and ValueError is raised, all inside one try block.  wrote = FALSE is an
\* OSError from makedirs / open / write.
SaveRaw ==
  /\ pc = "save"
  /\ UNCHANGED <<pipeline_vars, aggregate_vars, dump_vars, views_vars>>
  /\ \E wrote \in BOOLEAN :
       IF wrote
       THEN /\ dump_files' = WriteDump(dump_files, DumpName(today, clock), response_text)
            /\ error' = DumpedError(response_text)
       ELSE /\ error' = NotDumpedError
            /\ UNCHANGED dump_files
  /\ pc' = "save_except"
  /\ UNCHANGED <<response_text, json_text, span_from, parsed, tried, via,
                 forecast_data, today>>

\* except Exception: the handler of that try block catches whatever was raised
\* in it and raises the ValueError that leaves the function
SaveExcept ==
  /\ pc = "save_except"
  /\ UNCHANGED <<pipeline_vars, aggregate_vars, dump_vars, views_vars>>
  /\ error' = FinalError(response_text)
  /\ pc' = "failed"
  /\ UNCHANGED <<response_text, json_text, span_from, parsed, tried, via, dump_files,
                 forecast_data, today>>

RecoverNext ==
  \/ StrictParse
  \/ TryFenced
  \/ ExtractFirstBraced
  \/ SpanParse
  \/ LiteralEval
  \/ LargestBalanced
  \/ SyntacticRepair
  \/ AutoClose
  \/ Recovered
  \/ SaveRaw
  \/ SaveExcept

\* UTC dates of the run, as day numbers counted from 1970-01-01
Days == {20449, 20512}

NoEstimate == [input_chars |-> 0, estimated_input_tokens |-> 0, estimated_output_tokens |-> 0,
               estimated_total_tokens |-> 0, estimated_cost_usd |-> 0]

NoPrompt == [records |-> <<>>, forecast_weeks |-> 0, compact |-> FALSE, chars |-> 0]

NoResult == [kind |-> "", feature_records_count |-> 0, estimated |-> NoEstimate]

\* aggregate_weekly_worldwide is not running
AggregateIdle ==
  /\ apc = "idle"
  /\ events = <<>>
  /\ agg = <<>>

\* no other invocation shares the llm_responses directory
DumpIdle ==
  /\ clock = 0
  /\ invocations = <<>>

\* no request is inside forecast_threats_api
LimiterIdle ==
  /\ max_requests = 1
  /\ rl_count = 0
  /\ requests = <<>>
  /\ admitted = 0

\* FORECAST_CACHE_FILE absent, truncated by open(w), or holding a forecast
NoFile == [exists |-> FALSE, complete |-> FALSE, forecast |-> 0]
TruncatedFile == [exists |-> TRUE, complete |-> FALSE, forecast |-> 0]
FileOf(forecast) == [exists |-> TRUE, complete |-> TRUE, forecast |-> forecast]

\* no forecast run and no get_latest_forecast request
LatestIdle ==
  /\ cache_file = NoFile
  /\ latest_forecast = 0
  /\ runs = <<>>
  /\ readers = <<>>
  /\ generated = 0
  /\ stored = 0

ViewsIdle ==
  /\ LimiterIdle
  /\ LatestIdle

\* forecast_threats is not running
PipelineIdle ==
  /\ fpc = "idle"
  /\ feature_records = <<>>
  /\ original_records = <<>>
  /\ forecast_weeks = 0
  /\ dry_run = FALSE
  /\ max_input_tokens = 0
  /\ keep_recent_weeks = 0
  /\ current_keep = 0
  /\ input_tokens = 0
  /\ estimate = NoEstimate
  /\ passes = <<>>
  /\ llm_calls = 0
  /\ result = NoResult
  /\ user_message = NoPrompt

RecoverInit ==
  /\ PipelineIdle
  /\ AggregateIdle
  /\ DumpIdle
  /\ ViewsIdle
  /\ pc = "strict"
  /\ response_text \in ResponseTexts
  /\ json_text = NoneText
  /\ span_from = ""
  /\ parsed = NoneV
  /\ tried = {}
  /\ via = ""
  /\ dump_files = {}
  /\ error = NoError
  /\ forecast_data = NoneV
  /\ today \in Days

(***************************************************************************)
(* Post-processing: the Python operations it applies to the recovered      *)
(* value.  A result [ok |-> FALSE] stands for the exception Python raises  *)
(* (TypeError, AttributeError, ValueError).                                *)
(***************************************************************************)
\* the dictionary keys and string constants of the post-processing code
ForecastKeys ==
  [
    monthly_predicted_attacks |->
      <<"m", "o", "n", "t", "h", "l", "y", "_", "p", "r", "e", "d", "i", "c", "t", "e", "d", "_", "a", "t", "t", "a", "c", "k", "s">>,
    predictions |->
      <<"p", "r", "e", "d", "i", "c", "t", "i", "o", "n", "s">>,
    expected_count |->
      <<"e", "x", "p", "e", "c", "t", "e", "d", "_", "c", "o", "u", "n", "t">>,
    predicted_threat_types |->
      <<"p", "r", "e", "d", "i", "c", "t", "e", "d", "_", "t", "h", "r", "e", "a", "t", "_", "t", "y", "p", "e", "s">>,
    top_signals |->
      <<"t", "o", "p", "_", "s", "i", "g", "n", "a", "l", "s">>,
    signal_type |->
      <<"s", "i", "g", "n", "a", "l", "_", "t", "y", "p", "e">>,
    id |->
      <<"i", "d">>,
    score |->
      <<"s", "c", "o", "r", "e">>,
    tag |->
      <<"t", "a", "g">>,
    cve |->
      <<"c", "v", "e">>,
    threat_type |->
      <<"t", "h", "r", "e", "a", "t", "_", "t", "y", "p", "e">>,
    probability |->
      <<"p", "r", "o", "b", "a", "b", "i", "l", "i", "t", "y">>,
    key_signals_user_friendly |->
      <<"k", "e", "y", "_", "s", "i", "g", "n", "a", "l", "s", "_", "u", "s", "e", "r", "_", "f", "r", "i", "e", "n", "d", "l", "y">>,
    label |->
      <<"l", "a", "b", "e", "l">>,
    type |->
      <<"t", "y", "p", "e">>,
    week_start |->
      <<"w", "e", "e", "k", "_", "s", "t", "a", "r", "t">>,
    metadata |->
      <<"m", "e", "t", "a", "d", "a", "t", "a">>,
    forecast_generated_at_utc |->
      <<"f", "o", "r", "e", "c", "a", "s", "t", "_", "g", "e", "n", "e", "r", "a", "t", "e", "d", "_", "a", "t", "_", "u", "t", "c">>,
    CVE |->
      <<"C", "V", "E">>,
    forecast_horizon_weeks |->
      <<"f", "o", "r", "e", "c", "a", "s", "t", "_", "h", "o", "r", "i", "z", "o", "n", "_", "w", "e", "e", "k", "s">>,
    model |->
      <<"m", "o", "d", "e", "l">>
  ]

\* a float, held in thousandths: FloatV(340) is 0.34
FloatV(m) == [t |-> "float", n |-> m, s |-> <<>>, items |-> <<>>]

Raise == [ok |-> FALSE, val |-> NoneV]
Return(v) == [ok |-> TRUE, val |-> v]

\* bool(v)
PyTruthy(v) ==
  IF v.t \in {"int", "bool", "float"} THEN v.n # 0
  ELSE IF v.t = "str" THEN v.s # <<>>
  ELSE IF v.t = "none" THEN FALSE
  ELSE v.items # <<>>

IsSubstring(pat, s) == \E i \in 1..(Len(s) + 1) : i + Len(pat) - 1 <= Len(s) /\ StartsWithAt(s, pat, i)

\* key in v, for a str key: [ok, val] with val a BoolV
PyIn(key, v) ==
  IF v.t = "dict" THEN Return(BoolV(\E x \in 1..Len(v.items) : v.items[x].k = StrV(key)))
  ELSE IF v.t \in {"list", "tuple", "set"}
       THEN Return(BoolV(\E x \in 1..Len(v.items) : v.items[x].v = StrV(key)))
  ELSE IF v.t = "str" THEN Return(BoolV(IsSubstring(key, v.s)))
  ELSE Raise

HasKey(v, key) == v.t = "dict" /\ \E x \in 1..Len(v.items) : v.items[x].k = StrV(key)

\* d[key] of a dict that has the key
Lookup(v, key) == v.items[CHOOSE x \in 1..Len(v.items) : v.items[x].k = StrV(key)].v

\* v.get(key, default): only a dict has get
PyGet(v, key, default) ==
  IF v.t # "dict" THEN Raise
  ELSE IF HasKey(v, key) THEN Return(Lookup(v, key))
  ELSE Return(default)

\* v[key] = val, for a str key: only a dict accepts it
PySetItem(v, key, val) ==
  IF v.t = "dict" THEN Return(DictV(DictPut(v.items, StrV(key), val))) ELSE Raise

\* iter(v): the sequence of values a for loop visits
PyIter(v) ==
  IF v.t \in {"list", "tuple", "set"} THEN Return(ListV(v.items))
  ELSE IF v.t = "dict" THEN Return(ListV([x \in 1..Len(v.items) |-> Elem(v.items[x].k)]))
  ELSE IF v.t = "str" THEN Return(ListV([x \in 1..Len(v.s) |-> Elem(StrV(<<v.s[x]>>))]))
  ELSE Raise

\* v[:n]: dict, set and scalars have no slicing
PySlice(v, n) ==
  IF v.t \in {"list", "tuple"}
  THEN Return(ListV(SubSeq(v.items, 1, IF Len(v.items) < n THEN Len(v.items) ELSE n)))
  ELSE IF v.t = "str"
       THEN Return(StrV(SubSeq(v.s, 1, IF Len(v.s) < n THEN Len(v.s) ELSE n)))
  ELSE Raise

\* the integer a str denotes for int() and float(): digits, whitespace around them
IsDigitString(s) == Strip(s) # <<>> /\ \A x \in 1..Len(Strip(s)) : Strip(s)[x] \in Digits

\* truncation toward zero of m / 1000
TruncMilli(m) == IF m >= 0 THEN m \div 1000 ELSE -((-m) \div 1000)

\* int(v): val is a plain integer
PyInt(v) ==
  IF v.t \in {"int", "bool"} THEN [ok |-> TRUE, val |-> v.n]
  ELSE IF v.t = "float" THEN [ok |-> TRUE, val |-> TruncMilli(v.n)]
  ELSE IF v.t = "str" /\ IsDigitString(v.s) THEN [ok |-> TRUE, val |-> DecimalVal(Strip(v.s))]
  ELSE [ok |-> FALSE, val |-> 0]

\* float(v): val is in thousandths
PyFloat(v) ==
  IF v.t \in {"int", "bool"} THEN [ok |-> TRUE, val |-> 1000 * v.n]
  ELSE IF v.t = "float" THEN [ok |-> TRUE, val |-> v.n]
  ELSE IF v.t = "str" /\ IsDigitString(v.s)
       THEN [ok |-> TRUE, val |-> 1000 * DecimalVal(Strip(v.s))]
  ELSE [ok |-> FALSE, val |-> 0]

LowerCase == <<"a", "b", "c", "d", "e", "f", "g", "h", "i", "j", "k", "l", "m", "n", "o", "p", "q", "r", "s", "t", "u", "v", "w", "x", "y", "z">>
UpperCase == <<"A", "B", "C", "D", "E", "F", "G", "H", "I", "J", "K", "L", "M", "N", "O", "P", "Q", "R", "S", "T", "U", "V", "W", "X", "Y", "Z">>

Upper(c) ==
  IF \E x \in 1..26 : LowerCase[x] = c
  THEN UpperCase[CHOOSE x \in 1..26 : LowerCase[x] = c] ELSE c
Lower(c) ==
  IF \E x \in 1..26 : UpperCase[x] = c
  THEN LowerCase[CHOOSE x \in 1..26 : UpperCase[x] = c] ELSE c

\* str.title(): a letter is upper-cased after a non-letter, lower-cased after a letter
Title(s) ==
  [x \in 1..Len(s) |->
     IF x = 1 \/ s[x - 1] \notin Letters THEN Upper(s[x]) ELSE Lower(s[x])]

\* str.replace of every hyphen by a space
HyphensToSpaces(s) == [x \in 1..Len(s) |-> IF s[x] = "-" THEN SP ELSE s[x]]

\* str(n) for a non-negative int
RECURSIVE IntDigits(_)
IntDigits(n) ==
  IF n < 10 THEN <<ToString(n)>> ELSE Append(IntDigits(n \div 10), ToString(n % 10))

\* round(num / den, 3) in thousandths, for num >= 0 and den > 0, ties to even
Round3(num, den) ==
  LET q == (1000 * num) \div den
      r == (1000 * num) % den
  IN  IF 2 * r > den THEN q + 1
      ELSE IF 2 * r < den THEN q
      ELSE IF q % 2 = 0 THEN q ELSE q + 1

(***************************************************************************)
(* Post-processing of get_threat_forecast: the derived fields              *)
(***************************************************************************)
RECURSIVE SumSeq(_)
SumSeq(ns) == IF ns = <<>> THEN 0 ELSE Head(ns) + SumSeq(Tail(ns))

\* int(p.get(expected_count, 0)) of one prediction: [ok, val]
ExpectedCount(p) ==
  LET Count(e) == IF e.ok THEN PyInt(e.val) ELSE [ok |-> FALSE, val |-> 0]
  IN  Count(PyGet(p, ForecastKeys.expected_count, IntV(0)))

\* the try block of step 1: sum(int(p.get(expected_count, 0)) for p in preds[:4]),
\* 0 when anything in it raises
MonthlySum(fd) ==
  LET Total(cs) == IF \A x \in 1..Len(cs) : cs[x].ok
                   THEN SumSeq([x \in 1..Len(cs) |-> cs[x].val])
                   ELSE 0
      Each(it) == IF it.ok
                  THEN Total([x \in 1..Len(it.val.items) |-> ExpectedCount(it.val.items[x].v)])
                  ELSE 0
      First4(sl) == Each(IF sl.ok THEN PyIter(sl.val) ELSE Raise)
      Preds(g) == First4(IF g.ok THEN PySlice(g.val, 4) ELSE Raise)
  IN  Preds(PyGet(fd, ForecastKeys.predictions, ListV(<<>>)))

\* iter(v.get(key, [])): [ok, val]
GetIter(v, key) ==
  LET Iter(g) == IF g.ok THEN PyIter(g.val) ELSE Raise
  IN  Iter(PyGet(v, key, ListV(<<>>)))

\* the signals visited by
\*   for p in forecast_data.get(predictions, []): for s in p.get(top_signals, []):
\* in order; ok = FALSE when a get or an iteration raises
RECURSIVE SignalsOf(_, _)
SignalsOf(preds, acc) ==
  LET More(it) == IF it.ok THEN SignalsOf(Tail(preds), acc \o it.val.items) ELSE Raise
  IN  IF preds = <<>> THEN Return(ListV(acc))
      ELSE More(GetIter(Head(preds).v, ForecastKeys.top_signals))

AllSignals(fd) ==
  LET Each(it) == IF it.ok THEN SignalsOf(it.val.items, <<>>) ELSE Raise
  IN  Each(GetIter(fd, ForecastKeys.predictions))

\* the threat-type key of one signal: [ok, has, key]
TypeKey(s) ==
  LET ty == PyGet(s, ForecastKeys.signal_type, NoneV).val
      id == PyGet(s, ForecastKeys.id, NoneV).val
      no == [ok |-> FALSE, has |-> FALSE, key |-> <<>>]
  IN  IF s.t # "dict" THEN no
      ELSE IF ty = StrV(ForecastKeys.tag) /\ PyTruthy(id)
           THEN IF id.t = "str" THEN [ok |-> TRUE, has |-> TRUE, key |-> Title(id.s)] ELSE no
      ELSE IF ty = StrV(ForecastKeys.cve) /\ PyTruthy(id)
           THEN [ok |-> TRUE, has |-> TRUE, key |-> ForecastKeys.CVE]
      ELSE IF PyTruthy(ty)
           THEN IF ty.t = "str" THEN [ok |-> TRUE, has |-> TRUE, key |-> Title(ty.s)] ELSE no
      ELSE [ok |-> TRUE, has |-> FALSE, key |-> <<>>]

\* agg_types[key] = agg_types.get(key, 0) + w on an insertion-ordered dict of
\* entries [k, w]
Accumulate(acc, key, w) ==
  IF \E x \in 1..Len(acc) : acc[x].k = key
  THEN [x \in 1..Len(acc) |-> IF acc[x].k = key THEN [acc[x] EXCEPT !.w = @ + w] ELSE acc[x]]
  ELSE Append(acc, [k |-> key, w |-> w])

\* the loop of step 2 over the signals: [ok, acc]
RECURSIVE AggTypes(_, _)
AggTypes(sigs, acc) ==
  LET Add(tk, f) ==
        IF ~tk.ok THEN [ok |-> FALSE, acc |-> <<>>]
        ELSE IF ~tk.has THEN AggTypes(Tail(sigs), acc)
        ELSE IF ~f.ok THEN [ok |-> FALSE, acc |-> <<>>]
        ELSE AggTypes(Tail(sigs), Accumulate(acc, tk.key, f.val))
      One(s) == Add(TypeKey(s), PyFloat(PyGet(s, ForecastKeys.score, IntV(0)).val))
  IN  IF sigs = <<>> THEN [ok |-> TRUE, acc |-> acc]
      ELSE One(Head(sigs).v)

\* sorted(..., key = weight, reverse = True): the indices of ws by descending
\* weight, equal weights in their original order (the sort is stable)
\* a descending order that puts the later of two equal weights first
LastSeenDescOrder(ws) ==
  LET rank(j) == 1 + Cardinality({x \in 1..Len(ws) :
                                    ws[x] > ws[j] \/ (ws[x] = ws[j] /\ x > j)})
  IN  [i \in 1..Len(ws) |-> CHOOSE j \in 1..Len(ws) : rank(j) = i]

StableDescOrder(ws) ==
  LET rank(j) == 1 + Cardinality({x \in 1..Len(ws) :
                                    ws[x] > ws[j] \/ (ws[x] = ws[j] /\ x < j)})
  IN  [i \in 1..Len(ws) |-> CHOOSE j \in 1..Len(ws) : rank(j) = i]

\* step 2: the list predicted_threat_types, [ok, val]
PredictedThreatTypes(fd) ==
  LET Item(e, total) ==
        DictV(<<Entry(StrV(ForecastKeys.threat_type), StrV(e.k)),
                Entry(StrV(ForecastKeys.probability), FloatV(Round3(e.w, total)))>>)
      Sorted(acc, total, order) ==
        IF total > 0
        THEN Return(ListV([i \in 1..Len(acc) |-> Elem(Item(acc[order[i]], total))]))
        ELSE Return(ListV(<<>>))
      Normalise(ag) ==
        IF ~ag.ok THEN Raise
        ELSE Sorted(ag.acc, SumSeq([x \in 1..Len(ag.acc) |-> ag.acc[x].w]),
                    StableDescOrder([x \in 1..Len(ag.acc) |-> ag.acc[x].w]))
      Aggregate(sg) ==
        Normalise(IF sg.ok THEN AggTypes(sg.val.items, <<>>)
                  ELSE [ok |-> FALSE, acc |-> <<>>])
  IN  Aggregate(AllSignals(fd))

\* str(v) inside an f-string, for the hashable ids the label code meets
PyStr(v) ==
  IF v.t = "str" THEN v.s
  ELSE IF v.t = "bool" THEN (IF v.n = 1 THEN <<"T", "r", "u", "e">> ELSE <<"F", "a", "l", "s", "e">>)
  ELSE IntDigits(v.n)

\* the label of a signal seen for the first time: [ok, val]
SignalLabel(ty, id) ==
  IF ty = StrV(ForecastKeys.cve) /\ PyTruthy(id) THEN Return(StrV(PyStr(id)))
  ELSE IF ty = StrV(ForecastKeys.tag) /\ PyTruthy(id)
       THEN IF id.t = "str" THEN Return(StrV(Title(HyphensToSpaces(id.s)))) ELSE Raise
  ELSE IF PyTruthy(id) THEN Return(id)
  ELSE Return(ty)

\* the loop of step 3 over the signals: signal_map as an insertion-ordered
\* sequence of entries [ty, id, label, w]
RECURSIVE SignalMap(_, _)
SignalMap(sigs, acc) ==
  LET bad == [ok |-> FALSE, acc |-> <<>>]
      New(ty, id, f, lab) ==
        IF ~lab.ok THEN bad
        ELSE SignalMap(Tail(sigs),
                       Append(acc, [ty |-> ty, id |-> id, label |-> lab.val, w |-> f.val]))
      Put(s, ty, id, f) ==
        IF s.t # "dict" \/ ~f.ok THEN bad
        ELSE IF ~Hashable(ty) \/ ~Hashable(id) THEN bad
        ELSE IF \E x \in 1..Len(acc) : acc[x].ty = ty /\ acc[x].id = id
             THEN SignalMap(Tail(sigs),
                    [x \in 1..Len(acc) |->
                       IF acc[x].ty = ty /\ acc[x].id = id
                       THEN [acc[x] EXCEPT !.w = @ + f.val] ELSE acc[x]])
        ELSE New(ty, id, f, SignalLabel(ty, id))
      One(s) == Put(s, PyGet(s, ForecastKeys.signal_type, NoneV).val, PyGet(s, ForecastKeys.id, NoneV).val,
                    PyFloat(PyGet(s, ForecastKeys.score, IntV(0)).val))
  IN  IF sigs = <<>> THEN [ok |-> TRUE, acc |-> acc]
      ELSE One(Head(sigs).v)

\* [:8]
KeySignalsLimit == 8

\* step 3: the list key_signals_user_friendly, [ok, val]
KeySignals(fd) ==
  LET Item(e, ssum) ==
        DictV(<<Entry(StrV(ForecastKeys.label), e.label),
                Entry(StrV(ForecastKeys.type), e.ty),
                Entry(StrV(ForecastKeys.score), FloatV(Round3(e.w, ssum)))>>)
      \* ssum = sum(...) or 1, in thousandths
      Normalise(top, sum) ==
        Return(ListV([i \in 1..Len(top) |-> Elem(Item(top[i], IF sum = 0 THEN 1000 ELSE sum))]))
      Top(top) == Normalise(top, SumSeq([i \in 1..Len(top) |-> top[i].w]))
      Sorted(acc, order) ==
        Top([i \in 1..(IF Len(acc) < KeySignalsLimit THEN Len(acc) ELSE KeySignalsLimit) |->
               acc[order[i]]])
      Listed(sm) ==
        IF ~sm.ok THEN Raise
        ELSE Sorted(sm.acc, StableDescOrder([x \in 1..Len(sm.acc) |-> sm.acc[x].w]))
      Merge(sg) ==
        Listed(IF sg.ok THEN SignalMap(sg.val.items, <<>>) ELSE [ok |-> FALSE, acc |-> <<>>])
  IN  Merge(AllSignals(fd))

(***************************************************************************)
(* date.isoformat()                                                        *)
(***************************************************************************)
\* zero-padded decimal of n on w digits
Pad(n, w) == [x \in 1..w |-> ToString((n \div (10 ^ (w - x))) % 10)]

\* the civil date of a day number counted from 1970-01-01 (proleptic
\* Gregorian calendar, as datetime.date)
CivilDate(day) ==
  LET z   == day + 719468
      era == z \div 146097
      doe == z - era * 146097
      yoe == (doe - doe \div 1460 + doe \div 36524 - doe \div 146096) \div 365
      doy == doe - (365 * yoe + yoe \div 4 - yoe \div 100)
      mp  == (5 * doy + 2) \div 153
      d   == doy - (153 * mp + 2) \div 5 + 1
      m   == IF mp < 10 THEN mp + 3 ELSE mp - 9
      y   == yoe + era * 400 + (IF m <= 2 THEN 1 ELSE 0)
  IN  [year |-> y, month |-> m, day |-> d]

IsoFormat(day) ==
  LET c == CivilDate(day)
  IN  Pad(c.year, 4) \o <<"-">> \o Pad(c.month, 2) \o <<"-">> \o Pad(c.day, 2)

\* datetime.utcnow().isoformat(): the date, a T and the time of day; the time
\* of day is not tracked and stands as midnight
UtcNowIso(day) == IsoFormat(day) \o <<"T", "0", "0", ":", "0", "0", ":", "0", "0">>

\* timedelta(days=i) in the place of timedelta(weeks=i)
WeekStartDaily(day, i) == IsoFormat(day + i)

\* (today + timedelta(weeks=i)).isoformat(), i counted from 0
WeekStart(day, i) == IsoFormat(day + 7 * i)

\* for i, p in enumerate(preds): p[week_start] = ... with the TypeError of a
\* p that takes no item assignment swallowed; the dicts are changed in place
ForceWeekStarts(preds, day) ==
  IF preds.t \in {"list", "tuple"}
  THEN [preds EXCEPT !.items =
          [x \in 1..Len(preds.items) |->
             IF preds.items[x].v.t = "dict"
             THEN Elem(DictV(DictPut(preds.items[x].v.items, StrV(ForecastKeys.week_start),
                                     StrV(WeekStart(day, x - 1)))))
             ELSE preds.items[x]]]
  ELSE preds

\* the try block that forces week_start and stamps metadata: the value
\* forecast_data has when the block is left, by its end or by an exception
ForceWeeksAndStamp(fd, day) ==
  LET Stored(fd1, meta1) ==
        IF ~meta1.ok THEN fd1 ELSE PySetItem(fd1, ForecastKeys.metadata, meta1.val).val
      Stamp(fd1) ==
        Stored(fd1, PySetItem(PyGet(fd1, ForecastKeys.metadata, DictV(<<>>)).val,
                              ForecastKeys.forecast_generated_at_utc, StrV(UtcNowIso(day))))
      Force(g) ==
        IF ~g.ok THEN fd
        ELSE IF ~PyIter(g.val).ok THEN fd
        ELSE IF HasKey(fd, ForecastKeys.predictions)
             THEN Stamp(PySetItem(fd, ForecastKeys.predictions, ForceWeekStarts(g.val, day)).val)
        ELSE Stamp(fd)
  IN  Force(PyGet(fd, ForecastKeys.predictions, ListV(<<>>)))

\* an exception of a builtin class (TypeError, AttributeError, ValueError)
\* leaving get_threat_forecast from the post-processing code
PostError == [raised |-> TRUE, type |-> "Exception", parser_error |-> FALSE,
              path |-> FALSE, snippet |-> <<>>]

PostRaise ==
  /\ pc' = "raised"
  /\ error' = PostError
  /\ UNCHANGED forecast_data

\* step 1 that recomputes the field whether or not it is present
PostMonthlyAlways ==
  /\ pc = "post_monthly"
  /\ UNCHANGED <<pipeline_vars, aggregate_vars, dump_vars, views_vars>>
  /\ LET Store(set) ==
           IF ~set.ok THEN PostRaise
           ELSE /\ forecast_data' = set.val
                /\ pc' = "post_types"
                /\ UNCHANGED error
     IN  Store(PySetItem(forecast_data, ForecastKeys.monthly_predicted_attacks,
                         IntV(MonthlySum(forecast_data))))
  /\ UNCHANGED <<response_text, json_text, span_from, parsed, tried, via, dump_files, today>>

\* step 1: monthly_predicted_attacks
PostMonthly ==
  /\ pc = "post_monthly"
  /\ UNCHANGED <<pipeline_vars, aggregate_vars, dump_vars, views_vars>>
  /\ LET Store(set) ==
           IF ~set.ok THEN PostRaise
           ELSE /\ forecast_data' = set.val
                /\ pc' = "post_types"
                /\ UNCHANGED error
         Step(has) ==
           IF ~has.ok THEN PostRaise
           ELSE IF has.val = BoolV(TRUE)
                THEN pc' = "post_types" /\ UNCHANGED <<forecast_data, error>>
           ELSE Store(PySetItem(forecast_data, ForecastKeys.monthly_predicted_attacks,
                                IntV(MonthlySum(forecast_data))))
     IN  Step(PyIn(ForecastKeys.monthly_predicted_attacks, forecast_data))
  /\ UNCHANGED <<response_text, json_text, span_from, parsed, tried, via, dump_files, today>>

\* step 2: predicted_threat_types
PostThreatTypes ==
  /\ pc = "post_types"
  /\ UNCHANGED <<pipeline_vars, aggregate_vars, dump_vars, views_vars>>
  /\ LET Store(predicted) ==
           IF ~predicted.ok THEN PostRaise
           ELSE /\ forecast_data' =
                     PySetItem(forecast_data, ForecastKeys.predicted_threat_types, predicted.val).val
                /\ pc' = "post_signals"
                /\ UNCHANGED error
         Step(has) ==
           IF ~has.ok THEN PostRaise
           ELSE IF has.val = BoolV(TRUE)
                THEN pc' = "post_signals" /\ UNCHANGED <<forecast_data, error>>
           ELSE Store(PredictedThreatTypes(forecast_data))
     IN  Step(PyIn(ForecastKeys.predicted_threat_types, forecast_data))
  /\ UNCHANGED <<response_text, json_text, span_from, parsed, tried, via, dump_files, today>>

\* step 3 that passes on without adding the field
PostKeySignalsSkipped ==
  /\ pc = "post_signals"
  /\ UNCHANGED <<pipeline_vars, aggregate_vars, dump_vars, views_vars>>
  /\ pc' = "post_weeks"
  /\ UNCHANGED <<forecast_data, error>>
  /\ UNCHANGED <<response_text, json_text, span_from, parsed, tried, via, dump_files, today>>

\* step 3: key_signals_user_friendly
PostKeySignals ==
  /\ pc = "post_signals"
  /\ UNCHANGED <<pipeline_vars, aggregate_vars, dump_vars, views_vars>>
  /\ LET Store(key_signals) ==
           IF ~key_signals.ok THEN PostRaise
           ELSE /\ forecast_data' =
                     PySetItem(forecast_data, ForecastKeys.key_signals_user_friendly, key_signals.val).val
                /\ pc' = "post_weeks"
                /\ UNCHANGED error
         Step(has) ==
           IF ~has.ok THEN PostRaise
           ELSE IF has.val = BoolV(TRUE)
                THEN pc' = "post_weeks" /\ UNCHANGED <<forecast_data, error>>
           ELSE Store(KeySignals(forecast_data))
     IN  Step(PyIn(ForecastKeys.key_signals_user_friendly, forecast_data))
  /\ UNCHANGED <<response_text, json_text, span_from, parsed, tried, via, dump_files, today>>

\* week_start forcing and metadata stamp, then return forecast_data
PostWeeks ==
  /\ pc = "post_weeks"
  /\ UNCHANGED <<pipeline_vars, aggregate_vars, dump_vars, views_vars>>
  /\ forecast_data' = ForceWeeksAndStamp(forecast_data, today)
  /\ pc' = "done"
  /\ UNCHANGED <<response_text, json_text, span_from, parsed, tried, via, dump_files,
                 error, today>>

PostNext ==
  \/ PostMonthly
  \/ PostThreatTypes
  \/ PostKeySignals
  \/ PostWeeks

(***************************************************************************)
(* Feature records and the prompt size estimate                            *)
(*                                                                         *)
(* A weekly feature record keeps the fields build_forecast_features gives  *)
(* it.  week_start is [depth, week]: the ISO date of week number week,     *)
(* behind depth copies of the summary prefix.  Floats are fixed point:     *)
(* mean_cvss in hundredths, count_4week_avg in tenths.  CVE ids, tags and  *)
(* country codes are numbered.  covers is not a field of the program: it   *)
(* is the set of original weeks the record stands for.                     *)
(***************************************************************************)
Min(a, b) == IF a < b THEN a ELSE b
Max(a, b) == IF a < b THEN b ELSE a

\* the day number of the Monday of week 1
FirstWeekDay == 20094

IsSummary(r) == r.week_start.depth > 0

CveRecord(id, occurrences, cvss) == [id |-> id, occurrences |-> occurrences, cvss |-> cvss]
CountryRecord(code, threat_count) == [code |-> code, threat_count |-> threat_count]

\* the record build_forecast_features builds for week w, with items entries
\* in each top list
FeatureRecord(w, items, count) ==
  [week_start       |-> [depth |-> 0, week |-> w],
   count_last_week  |-> count,
   count_4week_avg  |-> 10 * count,
   growth_rate      |-> 0,
   mean_cvss        |-> 750,
   unique_cves      |-> items + (w % 2),
   unique_countries |-> items,
   top_countries    |-> [x \in 1..items |-> CountryRecord(1 + ((x + w) % 6), 1 + ((w + x) % 4))],
   top_tags         |-> [x \in 1..items |-> 1 + ((x + 2 * w) % 7)],
   top_cves         |-> [x \in 1..items |-> CveRecord(1 + ((x + w) % 6), 1 + ((2 * w + x) % 3), 750)],
   covers           |-> {w}]

\* r[top_cves] = r[top_cves][:nc], and the same for tags and countries
TrimLists(r, nc, nt, nk) ==
  [r EXCEPT !.top_cves      = SubSeq(@, 1, Min(Len(@), nc)),
            !.top_tags      = SubSeq(@, 1, Min(Len(@), nt)),
            !.top_countries = SubSeq(@, 1, Min(Len(@), nk))]

\* round(num / den, 0) to an integer, for num >= 0 and den > 0; a tie goes to
\* the even neighbour, which is what round() does when the float is exact
RoundDiv(num, den) ==
  LET q == num \div den
      r == num % den
  IN  IF 2 * r > den THEN q + 1
      ELSE IF 2 * r < den THEN q
      ELSE IF q % 2 = 0 THEN q ELSE q + 1

\* one dict of scores filled over a sequence of [k, w] contributions
RECURSIVE Scores(_, _)
Scores(contribs, acc) ==
  IF contribs = <<>> THEN acc
  ELSE Scores(Tail(contribs), Accumulate(acc, Head(contribs).k, Head(contribs).w))

RECURSIVE Flatten(_)
Flatten(seqs) == IF seqs = <<>> THEN <<>> ELSE Head(seqs) \o Flatten(Tail(seqs))

\* sorted(scores.items(), key = score, reverse = True)[:n]
TopScores(scores, n) ==
  LET order == StableDescOrder([x \in 1..Len(scores) |-> scores[x].w])
  IN  [i \in 1..Min(n, Len(scores)) |-> scores[order[i]]]

RECURSIVE UnionAll(_)
UnionAll(sets) == IF sets = <<>> THEN {} ELSE Head(sets) \cup UnionAll(Tail(sets))

\* the summary record of the merge branch
Summary(older, first_recent) ==
  LET n          == Len(older)
      agg_count  == SumSeq([x \in 1..n |-> older[x].count_last_week])
      agg_cvss   == RoundDiv(SumSeq([x \in 1..n |-> older[x].mean_cvss]), Max(1, n))
      agg_unique == SumSeq([x \in 1..n |-> older[x].unique_cves])
      cve_scores == Scores(Flatten([x \in 1..n |->
                       [y \in 1..Len(older[x].top_cves) |->
                          [k |-> older[x].top_cves[y].id, w |-> older[x].top_cves[y].occurrences]]]), <<>>)
      tag_scores == Scores(Flatten([x \in 1..n |->
                       [y \in 1..Len(older[x].top_tags) |-> [k |-> older[x].top_tags[y], w |-> 1]]]), <<>>)
      country_scores == Scores(Flatten([x \in 1..n |->
                       [y \in 1..Len(older[x].top_countries) |->
                          [k |-> older[x].top_countries[y].code,
                           w |-> older[x].top_countries[y].threat_count]]]), <<>>)
      cves       == TopScores(cve_scores, 5)
      tags       == TopScores(tag_scores, 5)
      countries  == TopScores(country_scores, 3)
  IN  [week_start       |-> [depth |-> first_recent.week_start.depth + 1,
                             week  |-> first_recent.week_start.week],
       count_last_week  |-> agg_count,
       count_4week_avg  |-> RoundDiv(10 * agg_count, Max(1, n)),
       growth_rate      |-> 0,
       mean_cvss        |-> agg_cvss,
       unique_cves      |-> agg_unique,
       unique_countries |-> Len(country_scores),
       top_countries    |-> [x \in 1..Len(countries) |-> CountryRecord(countries[x].k, countries[x].w)],
       top_tags         |-> [x \in 1..Len(tags) |-> tags[x].k],
       top_cves         |-> [x \in 1..Len(cves) |-> CveRecord(cves[x].k, cves[x].w, agg_cvss)],
       covers           |-> UnionAll([x \in 1..n |-> older[x].covers])]

\* a compressor that drops the older records instead of summarising them
compress_drops_older(records, keep) ==
  LET n      == Len(records)
      recent == SubSeq(records, n - keep + 1, n)
  IN  IF records = <<>> THEN records
      ELSE IF n <= keep + 1 THEN [x \in 1..n |-> TrimLists(records[x], 3, 5, 3)]
      ELSE [x \in 1..Len(recent) |-> TrimLists(recent[x], 3, 5, 3)]

\* a compressor that merges again whenever more than keep records are left
compress_merges_at_keep(records, keep) ==
  LET n      == Len(records)
      recent == SubSeq(records, n - keep + 1, n)
      older  == SubSeq(records, 1, n - keep)
      compressed == Append(recent, Summary(older, records[n - keep + 1]))
  IN  IF records = <<>> THEN records
      ELSE IF n <= keep THEN [x \in 1..n |-> TrimLists(records[x], 3, 5, 3)]
      ELSE [x \in 1..Len(compressed) |-> TrimLists(compressed[x], 3, 5, 3)]

compress_feature_records(records, keep) ==
  LET n      == Len(records)
      recent == SubSeq(records, n - keep + 1, n)
      older  == SubSeq(records, 1, n - keep)
      compressed == Append(recent, Summary(older, records[n - keep + 1]))
  IN  IF records = <<>> THEN records
      ELSE IF n <= keep + 1 THEN [x \in 1..n |-> TrimLists(records[x], 3, 5, 3)]
      ELSE [x \in 1..Len(compressed) |-> TrimLists(compressed[x], 3, 5, 3)]

(***************************************************************************)
(* json.dumps of the feature records and the token estimate                *)
(***************************************************************************)
FeatureKeys ==
  [
    region |->
      <<"r", "e", "g", "i", "o", "n">>,
    count_last_week |->
      <<"c", "o", "u", "n", "t", "_", "l", "a", "s", "t", "_", "w", "e", "e", "k">>,
    count_4week_avg |->
      <<"c", "o", "u", "n", "t", "_", "4", "w", "e", "e", "k", "_", "a", "v", "g">>,
    growth_rate |->
      <<"g", "r", "o", "w", "t", "h", "_", "r", "a", "t", "e">>,
    mean_cvss |->
      <<"m", "e", "a", "n", "_", "c", "v", "s", "s">>,
    unique_cves |->
      <<"u", "n", "i", "q", "u", "e", "_", "c", "v", "e", "s">>,
    unique_countries |->
      <<"u", "n", "i", "q", "u", "e", "_", "c", "o", "u", "n", "t", "r", "i", "e", "s">>,
    top_countries |->
      <<"t", "o", "p", "_", "c", "o", "u", "n", "t", "r", "i", "e", "s">>,
    top_tags |->
      <<"t", "o", "p", "_", "t", "a", "g", "s">>,
    top_cves |->
      <<"t", "o", "p", "_", "c", "v", "e", "s">>,
    occurrences |->
      <<"o", "c", "c", "u", "r", "r", "e", "n", "c", "e", "s">>,
    cvss |->
      <<"c", "v", "s", "s">>,
    code |->
      <<"c", "o", "d", "e">>,
    threat_count |->
      <<"t", "h", "r", "e", "a", "t", "_", "c", "o", "u", "n", "t">>
  ]
UnitedStates ==
  <<"U", "n", "i", "t", "e", "d", SP, "S", "t", "a", "t", "e", "s">>
SummaryPrefix ==
  <<"o", "l", "d", "e", "r", "_", "h", "i", "s", "t", "o", "r", "y", "_", "s", "u", "m", "m", "a", "r", "y", "_", "u", "p", "_", "t", "o", "_">>

CveId(x) == <<"C", "V", "E", "-", "2", "0", "2", "4", "-">> \o Pad(x, 4)
TagName(x) == <<"t", "a", "g">> \o Pad(x, 1)
CountryCode(x) == <<UpperCase[x], UpperCase[x + 1]>>

RECURSIVE WeekStartText(_)
WeekStartText(ws) ==
  IF ws.depth = 0 THEN IsoFormat(FirstWeekDay + 7 * (ws.week - 1))
  ELSE SummaryPrefix \o WeekStartText([ws EXCEPT !.depth = @ - 1])

\* the dict a feature record is, with its keys in insertion order
RecordValue(r) ==
  DictV(<<Entry(StrV(FeatureKeys.region), StrV(UnitedStates)),
          Entry(StrV(ForecastKeys.week_start), StrV(WeekStartText(r.week_start))),
          Entry(StrV(FeatureKeys.count_last_week), IntV(r.count_last_week)),
          Entry(StrV(FeatureKeys.count_4week_avg), FloatV(100 * r.count_4week_avg)),
          Entry(StrV(FeatureKeys.growth_rate), FloatV(r.growth_rate)),
          Entry(StrV(FeatureKeys.mean_cvss), FloatV(10 * r.mean_cvss)),
          Entry(StrV(FeatureKeys.unique_cves), IntV(r.unique_cves)),
          Entry(StrV(FeatureKeys.unique_countries), IntV(r.unique_countries)),
          Entry(StrV(FeatureKeys.top_countries),
                ListV([x \in 1..Len(r.top_countries) |->
                  Elem(DictV(<<Entry(StrV(FeatureKeys.code), StrV(CountryCode(r.top_countries[x].code))),
                               Entry(StrV(FeatureKeys.threat_count), IntV(r.top_countries[x].threat_count))>>))])),
          Entry(StrV(FeatureKeys.top_tags),
                ListV([x \in 1..Len(r.top_tags) |-> Elem(StrV(TagName(r.top_tags[x])))])),
          Entry(StrV(FeatureKeys.top_cves),
                ListV([x \in 1..Len(r.top_cves) |->
                  Elem(DictV(<<Entry(StrV(ForecastKeys.id), StrV(CveId(r.top_cves[x].id))),
                               Entry(StrV(FeatureKeys.occurrences), IntV(r.top_cves[x].occurrences)),
                               Entry(StrV(FeatureKeys.cvss), FloatV(10 * r.top_cves[x].cvss))>>))]))>>)

\* len(repr(x)) of a non-negative float held in thousandths
FloatChars(m) ==
  Len(IntDigits(m \div 1000)) + 1 +
    (IF m % 100 = 0 THEN 1 ELSE IF m % 10 = 0 THEN 2 ELSE 3)

\* len(json.dumps(v, ...)) of a value nested level deep: separators (",", ":")
\* when compact, indent = 2 otherwise; for strings that need no escape
RECURSIVE JsonChars(_, _, _)
JsonChars(v, compact, level) ==
  LET n      == Len(v.items)
      key(x) == IF v.t = "dict"
                THEN JsonChars(v.items[x].k, compact, level + 1) + (IF compact THEN 1 ELSE 2)
                ELSE 0
      inner  == SumSeq([x \in 1..n |-> key(x) + JsonChars(v.items[x].v, compact, level + 1)])
  IN  IF v.t = "none" THEN 4
      ELSE IF v.t = "bool" THEN (IF v.n = 1 THEN 4 ELSE 5)
      ELSE IF v.t = "int" THEN Len(IntDigits(v.n))
      ELSE IF v.t = "float" THEN FloatChars(v.n)
      ELSE IF v.t = "str" THEN Len(v.s) + 2
      ELSE IF n = 0 THEN 2
      ELSE IF compact THEN 2 + inner + (n - 1)
      ELSE 1 + n * (1 + 2 * (level + 1)) + inner + (n - 1) + 1 + 2 * level + 1

\* the characters of the prompt around the records and the three horizons
PromptFrameChars == 305

\* len(create_forecast_prompt(records, forecast_weeks, compact))
PromptChars(records, weeks, compact) ==
  PromptFrameChars + 3 * Len(IntDigits(weeks))
    + JsonChars(ListV([x \in 1..Len(records) |-> Elem(RecordValue(records[x]))]), compact, 0)

\* the default of the parameter forecast_weeks
FORECAST_HORIZON_WEEKS == 4

\* the prompt create_forecast_prompt returns: the records it serialises, the
\* horizon its frame names, the serialisation, and its length
create_forecast_prompt(records, weeks, compact) ==
  [records |-> records, forecast_weeks |-> weeks, compact |-> compact,
   chars |-> PromptChars(records, weeks, compact)]

\* the fallback of count_tokens, used when no tokenizer is installed
count_tokens(chars) == Max(1, chars \div 4)

\* the price of one token in millionths of a dollar: price_per_1k = 0.03
MicroDollarsPerToken == 30

estimate_prompt_and_cost(records, weeks, expected_output_tokens, compact) ==
  LET chars == PromptChars(records, weeks, compact)
      input == count_tokens(chars)
  IN  [input_chars             |-> chars,
       estimated_input_tokens  |-> input,
       estimated_output_tokens |-> expected_output_tokens,
       estimated_total_tokens  |-> input + expected_output_tokens,
       estimated_cost_usd      |-> MicroDollarsPerToken * (input + expected_output_tokens)]

(***************************************************************************)
(* forecast_threats: estimate, iterative compression, aggressive trimming, *)
(* then the dry-run return or the call of get_threat_forecast              *)
(***************************************************************************)
\* get_threat_forecast is not running
RecoverIdle ==
  /\ pc = "idle"
  /\ response_text = <<>>
  /\ json_text = NoneText
  /\ span_from = ""
  /\ parsed = NoneV
  /\ tried = {}
  /\ via = ""
  /\ dump_files = {}
  /\ error = NoError
  /\ forecast_data = NoneV
  /\ today = 0            \* the clock is read only after the call returns

\* settings.LLM_EXPECTED_OUTPUT_TOKENS, by its default
ExpectedOutputTokens == 300

\* the first estimate, on the pretty-printed prompt
Estimate ==
  /\ fpc = "estimate"
  /\ LET e == estimate_prompt_and_cost(feature_records, forecast_weeks, ExpectedOutputTokens, FALSE)
     IN  /\ estimate' = e
         /\ input_tokens' = e.estimated_input_tokens
  /\ current_keep' = keep_recent_weeks
  /\ fpc' = "loop"
  /\ UNCHANGED <<recover_vars, aggregate_vars, dump_vars, views_vars, user_message>>
  /\ UNCHANGED <<feature_records, original_records, forecast_weeks, dry_run, max_input_tokens,
                 keep_recent_weeks, passes, llm_calls, result>>

\* an iteration that leaves current_keep as it is when still over budget
CompressPassSameKeep ==
  /\ fpc = "loop"
  /\ input_tokens > max_input_tokens /\ current_keep > 1
  /\ LET recs == compress_feature_records(feature_records, current_keep)
         e    == estimate_prompt_and_cost(recs, forecast_weeks, ExpectedOutputTokens, TRUE)
     IN  /\ feature_records' = recs
         /\ estimate' = e
         /\ input_tokens' = e.estimated_input_tokens
         /\ IF e.estimated_input_tokens <= max_input_tokens
            THEN fpc' = "trim" /\ UNCHANGED current_keep
            ELSE fpc' = "loop" /\ UNCHANGED current_keep
  /\ passes' = Append(passes, current_keep)
  /\ UNCHANGED <<recover_vars, aggregate_vars, dump_vars, views_vars, user_message>>
  /\ UNCHANGED <<original_records, forecast_weeks, dry_run, max_input_tokens,
                 keep_recent_weeks, llm_calls, result>>

\* one iteration of the while loop: compress, re-estimate on the compact
\* prompt, break when within budget, else lower current_keep
CompressPass ==
  /\ fpc = "loop"
  /\ input_tokens > max_input_tokens /\ current_keep > 1
  /\ LET recs == compress_feature_records(feature_records, current_keep)
         e    == estimate_prompt_and_cost(recs, forecast_weeks, ExpectedOutputTokens, TRUE)
     IN  /\ feature_records' = recs
         /\ estimate' = e
         /\ input_tokens' = e.estimated_input_tokens
         /\ IF e.estimated_input_tokens <= max_input_tokens
            THEN fpc' = "trim" /\ UNCHANGED current_keep
            ELSE fpc' = "loop" /\ current_keep' = Max(1, current_keep - 1)
  /\ passes' = Append(passes, current_keep)
  /\ UNCHANGED <<recover_vars, aggregate_vars, dump_vars, views_vars, user_message>>
  /\ UNCHANGED <<original_records, forecast_weeks, dry_run, max_input_tokens,
                 keep_recent_weeks, llm_calls, result>>

\* the while condition is false
LoopExit ==
  /\ fpc = "loop"
  /\ ~(input_tokens > max_input_tokens /\ current_keep > 1)
  /\ fpc' = "trim"
  /\ UNCHANGED <<recover_vars, aggregate_vars, dump_vars, views_vars, user_message>>
  /\ UNCHANGED <<feature_records, original_records, forecast_weeks, dry_run, max_input_tokens,
                 keep_recent_weeks, current_keep, input_tokens, estimate, passes, llm_calls,
                 result>>

\* if input_tokens > max_input_tokens: shrink the lists and re-estimate
AggressiveTrim ==
  /\ fpc = "trim"
  /\ IF input_tokens > max_input_tokens
     THEN LET recs == [x \in 1..Len(feature_records) |-> TrimLists(feature_records[x], 1, 2, 1)]
              e    == estimate_prompt_and_cost(recs, forecast_weeks, ExpectedOutputTokens, TRUE)
          IN  /\ feature_records' = recs
              /\ estimate' = e
              /\ input_tokens' = e.estimated_input_tokens
     ELSE UNCHANGED <<feature_records, estimate, input_tokens>>
  /\ fpc' = "dispatch"
  /\ UNCHANGED <<recover_vars, aggregate_vars, dump_vars, views_vars, user_message>>
  /\ UNCHANGED <<original_records, forecast_weeks, dry_run, max_input_tokens,
                 keep_recent_weeks, current_keep, passes, llm_calls, result>>

\* if dry_run: return the estimate
DryRun ==
  /\ fpc = "dispatch"
  /\ dry_run
  /\ result' = [kind |-> "dry-run", feature_records_count |-> Len(feature_records),
                estimated |-> estimate]
  /\ fpc' = "returned"
  /\ UNCHANGED <<recover_vars, aggregate_vars, dump_vars, views_vars, user_message>>
  /\ UNCHANGED <<feature_records, original_records, forecast_weeks, dry_run, max_input_tokens,
                 keep_recent_weeks, current_keep, input_tokens, estimate, passes, llm_calls>>

\* the call made without looking at dry_run
CallLLMAlways ==
  /\ fpc = "dispatch"
  /\ llm_calls' = llm_calls + 1
  /\ fpc' = "called"
  /\ user_message' = create_forecast_prompt(feature_records, FORECAST_HORIZON_WEEKS, FALSE)
  /\ UNCHANGED <<recover_vars, aggregate_vars, dump_vars, views_vars>>
  /\ UNCHANGED <<feature_records, original_records, forecast_weeks, dry_run, max_input_tokens,
                 keep_recent_weeks, current_keep, input_tokens, estimate, passes, result>>

\* forecast_result = get_threat_forecast(feature_records, ...)
CallLLM ==
  /\ fpc = "dispatch"
  /\ ~dry_run
  /\ llm_calls' = llm_calls + 1
  /\ fpc' = "called"
  /\ user_message' = create_forecast_prompt(feature_records, FORECAST_HORIZON_WEEKS, FALSE)
  /\ UNCHANGED <<recover_vars, aggregate_vars, dump_vars, views_vars>>
  /\ UNCHANGED <<feature_records, original_records, forecast_weeks, dry_run, max_input_tokens,
                 keep_recent_weeks, current_keep, input_tokens, estimate, passes, result>>

CompressNext ==
  \/ Estimate
  \/ CompressPass
  \/ LoopExit
  \/ AggressiveTrim
  \/ DryRun
  \/ CallLLM

\* bounds of the pipeline inputs
MaxRecords == 8
MaxKeep == 6
\* list lengths build_forecast_features can give a record (at most 5)
ListLens == {0, 2, 5}
Counts == {0, 100}
Budgets == {50, 400, 900, 2500}
Horizons == {4, 12}

CompressInit ==
  /\ RecoverIdle
  /\ AggregateIdle
  /\ DumpIdle
  /\ ViewsIdle
  /\ fpc = "estimate"
  /\ \E n \in 0..MaxRecords, items \in ListLens, count \in Counts :
       feature_records = [w \in 1..n |-> FeatureRecord(w, items, count)]
  /\ original_records = feature_records
  /\ forecast_weeks \in Horizons
  /\ dry_run \in BOOLEAN
  /\ max_input_tokens \in Budgets
  /\ keep_recent_weeks \in 1..MaxKeep
  /\ current_keep = 0
  /\ input_tokens = 0
  /\ estimate = NoEstimate
  /\ passes = <<>>
  /\ llm_calls = 0
  /\ result = NoResult
  /\ user_message = NoPrompt

(***************************************************************************)
(* Specifications                                                          *)
(***************************************************************************)
Next == RecoverNext \/ PostNext

\* get_threat_forecast from the response text on
Spec == RecoverInit /\ [][Next]_vars

\* forecast_threats up to the call of get_threat_forecast
SpecCompress == CompressInit /\ [][CompressNext]_vars

(***************************************************************************)
(* aggregate_weekly_worldwide: the weekly buckets of the threat events.    *)
(* A row of df is a record of the columns the aggregation reads; a column  *)
(* value that may be null is NoneText or SomeText.  A mean or a ratio is   *)
(* kept as the pair it is the quotient of, and n = 0 or den = 0 is the NaN *)
(* or inf that pandas gives there.                                         *)
(***************************************************************************)
AggregateKeys ==
  [cvss |-> <<"c", "v", "s", "s">>,
   tags |-> <<"t", "a", "g", "s">>]

Event(day, cve, code, data) ==
  [timestamp |-> day, cve_id |-> cve, country_code |-> code, data |-> data]

\* dt.to_period(W) start_time: the Monday of the week of the day number, day 0
\* being a Thursday
MondayOf(day) == day - ((day + 3) % 7)

\* extract(x) of safe_json_get(series, field, default): whatever goes wrong in
\* the try block gives the default
safe_json_get(x, field, default) ==
  IF ~x.some THEN default
  ELSE LET Got(r) ==
             IF ~r.ok THEN default
             ELSE LET Field(g) == IF g.ok THEN g.val ELSE default
                  IN  Field(PyGet(r.val, field, default))
       IN  Got(json_loads(x.text))

\* for tag in json.loads(x).get(tags, []): nothing catches what it raises
TagsOf(x) ==
  LET Got(r) ==
        IF ~r.ok THEN Raise
        ELSE LET Iterated(g) == IF g.ok THEN PyIter(g.val) ELSE Raise
             IN  Iterated(PyGet(r.val, AggregateKeys.tags, ListV(<<>>)))
  IN  Got(json_loads(x.text))

\* [tag for x in s if pd.notnull(x) for tag in ...]
RECURSIVE TagList(_, _)
TagList(rows, acc) ==
  IF rows = <<>> THEN Return(ListV(acc))
  ELSE IF ~Head(rows).data.some THEN TagList(Tail(rows), acc)
  ELSE LET Then(t) == IF t.ok THEN TagList(Tail(rows), acc \o t.val.items) ELSE Raise
       IN  Then(TagsOf(Head(rows).data))

\* safe_json_get(s, cvss, 0).astype(float): the floats in thousandths, a None
\* becoming the NaN that mean() skips; [ok |-> FALSE] is the ValueError or
\* TypeError of a value that is no number
RECURSIVE CvssFloats(_, _)
CvssFloats(rows, acc) ==
  IF rows = <<>> THEN [ok |-> TRUE, val |-> acc]
  ELSE LET Conv(v) ==
             IF v.t = "none" THEN CvssFloats(Tail(rows), acc)
             ELSE IF PyFloat(v).ok THEN CvssFloats(Tail(rows), Append(acc, PyFloat(v).val))
             ELSE [ok |-> FALSE, val |-> <<>>]
       IN  Conv(safe_json_get(Head(rows).data, AggregateKeys.cvss, IntV(0)))

\* s.value_counts().head(5).to_dict() of a column: the non-null values with
\* their counts, the five most frequent of them
ValueCounts(col) ==
  LET present  == {col[i].text : i \in {j \in 1..Len(col) : col[j].some}}
      count(k) == Cardinality({j \in 1..Len(col) : col[j] = SomeText(k)})
      top      == CHOOSE K \in SUBSET present :
                    /\ Cardinality(K) = Min(5, Cardinality(present))
                    /\ \A a \in K, b \in present \ K : count(a) >= count(b)
  IN  [k \in top |-> count(k)]

\* the named aggregations of one week_start group
AggRow(monday, rows) ==
  LET cves      == [i \in 1..Len(rows) |-> rows[i].cve_id]
      countries == [i \in 1..Len(rows) |-> rows[i].country_code]
      Row(floats, tags) ==
        IF ~floats.ok \/ ~tags.ok THEN [ok |-> FALSE, val |-> <<>>]
        ELSE [ok  |-> TRUE,
              val |-> [week_start       |-> IsoFormat(monday),
                       count_last_week  |-> Cardinality({i \in 1..Len(cves) : cves[i].some}),
                       mean_cvss        |-> [sum |-> SumSeq(floats.val), n |-> Len(floats.val)],
                       unique_cves      |-> Cardinality(DOMAIN ValueCounts(cves)),
                       unique_countries |-> Cardinality(DOMAIN ValueCounts(countries)),
                       top_countries    |-> ValueCounts(countries),
                       top_tags         |-> SubSeq(tags.val.items, 1, Min(5, Len(tags.val.items))),
                       top_cves         |-> ValueCounts(cves)]]
  IN  Row(CvssFloats(rows, <<>>), TagList(rows, <<>>))

\* the group keys in the order groupby and sort_values give them
RECURSIVE SortedWeeks(_)
SortedWeeks(S) ==
  IF S = {} THEN <<>>
  ELSE LET m == CHOOSE x \in S : \A y \in S : x <= y
       IN  <<m>> \o SortedWeeks(S \ {m})

\* rolling(window=4, min_periods=1).mean() and pct_change() of count_last_week
WithTrend(rows) ==
  [i \in 1..Len(rows) |->
     [week_start       |-> rows[i].week_start,
      count_last_week  |-> rows[i].count_last_week,
      mean_cvss        |-> rows[i].mean_cvss,
      unique_cves      |-> rows[i].unique_cves,
      unique_countries |-> rows[i].unique_countries,
      top_countries    |-> rows[i].top_countries,
      top_tags         |-> rows[i].top_tags,
      top_cves         |-> rows[i].top_cves,
      count_4week_avg  |->
        [sum |-> SumSeq([j \in 1..Min(4, i) |-> rows[i - j + 1].count_last_week]),
         n   |-> Min(4, i)],
      growth_rate      |->
        IF i = 1 THEN [num |-> 0, den |-> 0]
        ELSE [num |-> rows[i].count_last_week - rows[i - 1].count_last_week,
              den |-> rows[i - 1].count_last_week]]]

aggregate_weekly_worldwide(df) ==
  LET weeks      == SortedWeeks({MondayOf(df[i].timestamp) : i \in 1..Len(df)})
      InWeek(w)  == LET Same(e) == MondayOf(e.timestamp) = w IN SelectSeq(df, Same)
      Rows(grouped) ==
        IF \E i \in 1..Len(grouped) : ~grouped[i].ok THEN [ok |-> FALSE, val |-> <<>>]
        ELSE [ok |-> TRUE, val |-> WithTrend([i \in 1..Len(grouped) |-> grouped[i].val])]
  IN  Rows([i \in 1..Len(weeks) |-> AggRow(weeks[i], InWeek(weeks[i]))])

\* the whole call: the frame agg comes back, or an exception leaves the function
AggregateWeekly ==
  /\ apc = "aggregate"
  /\ LET Returned(r) ==
           IF r.ok THEN apc' = "done" /\ agg' = r.val
           ELSE apc' = "raised" /\ agg' = <<>>
     IN  Returned(aggregate_weekly_worldwide(events))
  /\ UNCHANGED <<events, recover_vars, pipeline_vars, dump_vars, views_vars>>

AggregateNext == AggregateWeekly

\* the detail blobs of the events: null, well formed, cut off, and not an object
B_Full      == SomeText(<<"{", DQ, "c", "v", "s", "s", DQ, ":", "7", ",",
                          DQ, "t", "a", "g", "s", DQ, ":", "[", DQ, "r", "c", "e", DQ, "]", "}">>)
B_Empty     == SomeText(<<"{", "}">>)
B_Truncated == SomeText(<<"{", DQ, "c", "v", "s", "s", DQ, ":", "7">>)
B_NotObject == SomeText(<<"[", "1", "]">>)
Blobs == {NoneText, B_Full, B_Empty, B_Truncated, B_NotObject}

EventShapes ==
  {Event(day, cve, SomeText(<<"U", "S">>), data) :
     day \in Days, cve \in {NoneText, SomeText(CveId(1))}, data \in Blobs}

MaxEvents == 2
EventLists == UNION {[1..n -> EventShapes] : n \in 0..MaxEvents}

AggregateInit ==
  /\ RecoverIdle
  /\ PipelineIdle
  /\ DumpIdle
  /\ ViewsIdle
  /\ apc = "aggregate"
  /\ events \in EventLists
  /\ agg = <<>>

\* aggregate_weekly_worldwide on its own
SpecAggregate == AggregateInit /\ [][AggregateNext]_vars

(***************************************************************************)
(* Invocations of get_threat_forecast that have reached the terminal       *)
(* failure and share the llm_responses directory and the clock.  Each      *)
(* takes the steps SaveRaw and SaveExcept take; the write of the file is   *)
(* taken as one step.                                                      *)
(***************************************************************************)
NoName == [some |-> FALSE, name |-> DumpName(0, 0)]

Invocation(text) ==
  [pc |-> "save", response_text |-> text, fname |-> NoName, error |-> NoError]

SaveRawOf(i) ==
  /\ invocations[i].pc = "save"
  /\ \E wrote \in BOOLEAN :
       IF wrote
       THEN /\ dump_files' = WriteDump(dump_files, DumpName(today, clock),
                                       invocations[i].response_text)
            /\ invocations' =
                 [invocations EXCEPT
                    ![i].pc    = "save_except",
                    ![i].fname = [some |-> TRUE, name |-> DumpName(today, clock)],
                    ![i].error = DumpedError(invocations[i].response_text)]
       ELSE /\ invocations' = [invocations EXCEPT ![i].pc    = "save_except",
                                                  ![i].error = NotDumpedError]
            /\ UNCHANGED dump_files
  /\ UNCHANGED <<pc, response_text, json_text, span_from, parsed, tried, via, error,
                 forecast_data, today, clock>>
  /\ UNCHANGED <<pipeline_vars, aggregate_vars, views_vars>>

SaveExceptOf(i) ==
  /\ invocations[i].pc = "save_except"
  /\ invocations' = [invocations EXCEPT
                       ![i].pc    = "failed",
                       ![i].error = FinalError(invocations[i].response_text)]
  /\ UNCHANGED <<recover_vars, pipeline_vars, aggregate_vars, views_vars, clock>>

MaxClock == 2

\* a second goes by on the clock utcnow() reads
Tick ==
  /\ clock < MaxClock
  /\ clock' = clock + 1
  /\ UNCHANGED <<recover_vars, pipeline_vars, aggregate_vars, views_vars, invocations>>

DumpNext ==
  \/ \E i \in 1..Len(invocations) : SaveRawOf(i)
  \/ \E i \in 1..Len(invocations) : SaveExceptOf(i)
  \/ Tick

\* responses that no strategy recovers
FailingTexts == {T_NoBrace, T_Bare}

DumpInit ==
  /\ RecoverIdle
  /\ PipelineIdle
  /\ AggregateIdle
  /\ ViewsIdle
  /\ clock = 0
  /\ invocations \in [1..2 -> {Invocation(t) : t \in FailingTexts}]

\* two failing invocations side by side
SpecDump == DumpInit /\ [][DumpNext]_vars

(***************************************************************************)
(* Recovered values for post-processing on its own                         *)
(***************************************************************************)

Signal(ty, id, score) ==
  DictV(<<Entry(StrV(ForecastKeys.signal_type), StrV(ty)), Entry(StrV(ForecastKeys.id), StrV(id)),
          Entry(StrV(ForecastKeys.score), score)>>)

Letters6 == <<"a", "b", "c", "d", "e", "f">>

SigTag == Signal(ForecastKeys.tag, <<"w", "e", "b", "-", "s", "h", "e", "l", "l">>, FloatV(500))
SigCve == Signal(ForecastKeys.cve, <<"C", "V", "E", "-", "1">>, FloatV(250))
SigKev == DictV(<<Entry(StrV(ForecastKeys.signal_type), StrV(<<"k", "e", "v">>)), Entry(StrV(ForecastKeys.score), IntV(1))>>)

\* a prediction with a count, a stale week_start and two signals
P_Full ==
  DictV(<<Entry(StrV(ForecastKeys.expected_count), IntV(3)),
          Entry(StrV(ForecastKeys.week_start), StrV(<<"2", "0", "2", "0", "-", "0", "1", "-", "0", "1">>)),
          Entry(StrV(ForecastKeys.top_signals), ListV(<<Elem(SigTag), Elem(SigCve)>>))>>)
\* a prediction with no expected_count and no week_start
P_NoCount == DictV(<<Entry(StrV(ForecastKeys.top_signals), ListV(<<Elem(SigCve)>>))>>)
\* a prediction whose expected_count is not numeric
P_TextCount == DictV(<<Entry(StrV(ForecastKeys.expected_count), StrV(<<"x">>))>>)
\* a prediction whose expected_count is a numeric string
P_Kev ==
  DictV(<<Entry(StrV(ForecastKeys.expected_count), StrV(<<"7">>)),
          Entry(StrV(ForecastKeys.top_signals), ListV(<<Elem(SigKev), Elem(SigTag)>>))>>)
\* an element of predictions that is not an object
P_NotDict == IntV(1)
\* a prediction with six signals of six tags, all of score 1
P_SixTags ==
  DictV(<<Entry(StrV(ForecastKeys.top_signals),
                ListV([x \in 1..6 |->
                         Elem(Signal(ForecastKeys.tag, <<Letters6[x]>>, IntV(1)))]))>>)

\* a prediction with nine signals of nine tags, of scores 1, 2, 1, 2, ...
P_NineTags ==
  DictV(<<Entry(StrV(ForecastKeys.top_signals),
                ListV([x \in 1..9 |->
                         Elem(Signal(ForecastKeys.tag, <<LowerCase[x]>>, IntV(2 - (x % 2))))]))>>)

PredShapes == {P_Full, P_NoCount, P_TextCount, P_Kev, P_NotDict, P_SixTags, P_NineTags}

\* bound on the number of predictions
MaxPreds == 2

PredLists == UNION {[1..n -> PredShapes] : n \in 0..MaxPreds}

Predictions(l) == ListV([x \in 1..Len(l) |-> Elem(l[x])])

\* the objects recovered around a list of predictions
Forecasts(l) ==
  { DictV(<<Entry(StrV(ForecastKeys.predictions), Predictions(l))>>),
    DictV(<<Entry(StrV(ForecastKeys.predictions), Predictions(l)),
            Entry(StrV(ForecastKeys.monthly_predicted_attacks), IntV(9)),
            Entry(StrV(ForecastKeys.predicted_threat_types), ListV(<<>>)),
            Entry(StrV(ForecastKeys.key_signals_user_friendly), ListV(<<>>))>>),
    DictV(<<Entry(StrV(ForecastKeys.predictions), Predictions(l)),
            Entry(StrV(ForecastKeys.metadata), NoneV)>>),
    DictV(<<Entry(StrV(ForecastKeys.forecast_horizon_weeks), IntV(4)),
            Entry(StrV(ForecastKeys.predictions), Predictions(l)),
            Entry(StrV(ForecastKeys.metadata), DictV(<<Entry(StrV(ForecastKeys.model), StrV(<<"m">>))>>))>>),
    DictV(<<Entry(StrV(ForecastKeys.forecast_horizon_weeks), IntV(4)),
            Entry(StrV(ForecastKeys.predictions), Predictions(l))>>),
    DictV(<<Entry(StrV(ForecastKeys.monthly_predicted_attacks), NoneV),
            Entry(StrV(ForecastKeys.predictions), Predictions(l)),
            Entry(StrV(ForecastKeys.key_signals_user_friendly), StrV(<<"x">>))>>) }

\* recovered values that are no object with a list of predictions
OddValues ==
  { IntV(1), NoneV, ListV(<<Elem(IntV(1))>>), DictV(<<>>),
    DictV(<<Entry(StrV(ForecastKeys.predictions), NoneV)>>),
    DictV(<<Entry(StrV(ForecastKeys.predictions), StrV(<<"a", "b">>))>>) }

RecoveredValues == OddValues \cup UNION {Forecasts(l) : l \in PredLists}

\* get_threat_forecast at the point where a fallback strategy has recovered
\* a value: parsed holds it and forecast_data = parsed has run
PostInit ==
  /\ PipelineIdle
  /\ AggregateIdle
  /\ DumpIdle
  /\ ViewsIdle
  /\ pc = "post_monthly"
  /\ response_text = <<>>
  /\ json_text = NoneText
  /\ span_from = ""
  /\ parsed \in RecoveredValues
  /\ forecast_data = parsed
  /\ tried = {}
  /\ via = ""
  /\ dump_files = {}
  /\ error = NoError
  /\ today \in Days

\* the post-processing of get_threat_forecast, from any recovered value
SpecPost == PostInit /\ [][PostNext]_vars

(***************************************************************************)
(* Properties of the recovery cascade                                      *)
(***************************************************************************)
\* positions of get_threat_forecast behind the strict parse
FallbackPcs == {"fenced", "braced", "span", "literal", "largest", "repair", "autoclose",
                "recovered", "save", "save_except", "failed"}
\* positions of get_threat_forecast once a value is in forecast_data
PostPcs == {"post_monthly", "post_types", "post_signals", "post_weeks", "done", "raised"}

V_A1 == DictV(<<Entry(StrV(<<"a">>), IntV(1))>>)
V_A12 == DictV(<<Entry(StrV(<<"a">>), ListV(<<Elem(IntV(1)), Elem(IntV(2))>>))>>)
V_FenceString == StrV(<<BT, BT, BT, "{", "}", BT, BT, BT>>)

\* C1: recovery raises the terminal failure only after every one of the seven
\* strategies (strict, fenced, braced, literal, largest, repair, autoclose)
\* has been attempted on the text
C1_FailsOnlyAfterEveryStrategy == pc = "failed" => tried = Strategies

\* C2: the object truncated mid-array directly after a comma is recovered by
\* the auto-close strategy, which yields the object with the array [1, 2]
C2_TruncatedArrayAutoClosed ==
  response_text = T_TruncatedArray =>
    /\ pc \notin {"save", "save_except", "failed"}
    /\ pc = "post_monthly" => via = "autoclose" /\ forecast_data = V_A12

C4_QuotedBraceStartsNoSpan ==
  span_from = "braced" =>
    \A i \in 1..Len(response_text) :
      LET Outside(st) == st.start # 0 => ~flb_state(response_text, st.start - 1).in_string
      IN  Outside(efb_state(response_text, i))

\* C5: when every strategy has failed and the raw text was written to a file,
\* the error that leaves the function carries the parser error, the path of
\* the file and the snippet of the raw text
C5_ErrorCarriesPathAndSnippet ==
  (pc = "failed" /\ \E f \in dump_files : f.content = response_text) =>
    /\ error.raised
    /\ error.parser_error
    /\ error.path
    /\ error.snippet = Snippet(response_text)

\* C10: for a text that is well-formed JSON as a whole, no fallback strategy is
\* engaged and the value handed to post-processing is the strict parse of the
\* whole text
C10_WellFormedViaStrictOnly ==
  json_loads(response_text).ok =>
    /\ pc \notin FallbackPcs
    /\ tried \subseteq {"strict"}
    /\ json_text = NoneText
    /\ pc \in PostPcs => via = "strict" /\ parsed = NoneV
    /\ pc = "post_monthly" => forecast_data = json_loads(response_text).val

C10_Witness ==
  /\ response_text = T_StringWithFence
  /\ pc = "post_monthly"
  /\ via = "strict"
  /\ tried = {"strict"}
  /\ forecast_data = V_FenceString

\* C11: for every text that wraps valid JSON in a json fence, with any prose
\* around it, recovery does not fail and the value handed to post-processing
\* is the strict parse of the fence interior
C11_FencedJsonInterior ==
  \A c \in FencedJsonCases :
    (response_text = Wrap(c) /\ json_loads(c.interior).ok) =>
      /\ pc \notin {"save", "save_except", "failed"}
      /\ pc = "post_monthly" => forecast_data = json_loads(c.interior).val

(***************************************************************************)
(* Properties of post-processing                                           *)
(***************************************************************************)
\* C6: post-processing never raises, whatever value was recovered
C6_PostProcessingNeverRaises == pc # "raised"

\* what one prediction contributes to the monthly sum as the claim reads it:
\* its expected_count where int() accepts it, 0 where it is missing or not
\* numeric
ClaimedCount(p) == IF ExpectedCount(p).ok THEN ExpectedCount(p).val ELSE 0

\* C12: when monthly_predicted_attacks is absent, post-processing sets it to
\* the sum of expected_count over the first 4 predictions, a missing or
\* non-numeric expected_count counting as 0 and the others still counting
C12_MonthlySumSkipsBadCounts ==
  (/\ pc = "post_types"
   /\ parsed.t = "dict"
   /\ ~HasKey(parsed, ForecastKeys.monthly_predicted_attacks)
   /\ HasKey(parsed, ForecastKeys.predictions)
   /\ Lookup(parsed, ForecastKeys.predictions).t = "list") =>
    LET Claimed(preds) ==
          SumSeq([x \in 1..Min(4, Len(preds.items)) |-> ClaimedCount(preds.items[x].v)])
    IN  Lookup(forecast_data, ForecastKeys.monthly_predicted_attacks)
          = IntV(Claimed(Lookup(parsed, ForecastKeys.predictions)))

\* the probabilities of a list predicted_threat_types, in thousandths
Probabilities(ptt) ==
  [x \in 1..Len(ptt.items) |-> Lookup(ptt.items[x].v, ForecastKeys.probability).n]

\* C13: when post-processing derives predicted_threat_types, the rounded
\* probabilities sum to at most 1, and the list is empty when no prediction
\* has any signal
C13_ProbabilitiesSumToAtMostOne ==
  (/\ pc = "post_signals"
   /\ parsed.t = "dict"
   /\ ~HasKey(parsed, ForecastKeys.predicted_threat_types)) =>
    LET Bounded(ptt, signals) ==
          /\ SumSeq(Probabilities(ptt)) <= 1000
          /\ signals.val.items = <<>> => ptt = ListV(<<>>)
    IN  Bounded(Lookup(forecast_data, ForecastKeys.predicted_threat_types), AllSignals(parsed))

\* a recovered object with an empty list of predictions and none of the three
\* summary fields
EmptyForecast(v) ==
  /\ v.t = "dict"
  /\ HasKey(v, ForecastKeys.predictions)
  /\ Lookup(v, ForecastKeys.predictions) = ListV(<<>>)
  /\ ~HasKey(v, ForecastKeys.monthly_predicted_attacks)
  /\ ~HasKey(v, ForecastKeys.predicted_threat_types)
  /\ ~HasKey(v, ForecastKeys.key_signals_user_friendly)

\* C14: for a recovered object with an empty predictions list and none of
\* the three summary fields, post-processing does not raise, adds
\* monthly_predicted_attacks = 0, predicted_threat_types = [] and
\* key_signals_user_friendly = [], and keeps every recovered field other than
\* metadata (predictions and forecast_horizon_weeks among them) as it was
C14_EmptyPredictionsDefaults ==
  EmptyForecast(parsed) =>
    /\ pc # "raised"
    /\ pc = "done" =>
         /\ HasKey(forecast_data, ForecastKeys.monthly_predicted_attacks)
         /\ HasKey(forecast_data, ForecastKeys.predicted_threat_types)
         /\ HasKey(forecast_data, ForecastKeys.key_signals_user_friendly)
         /\ Lookup(forecast_data, ForecastKeys.monthly_predicted_attacks) = IntV(0)
         /\ Lookup(forecast_data, ForecastKeys.predicted_threat_types) = ListV(<<>>)
         /\ Lookup(forecast_data, ForecastKeys.key_signals_user_friendly) = ListV(<<>>)
         /\ \A x \in 1..Len(parsed.items) :
              parsed.items[x].k # StrV(ForecastKeys.metadata) =>
                \E y \in 1..Len(forecast_data.items) : forecast_data.items[y] = parsed.items[x]

C14_Witness ==
  /\ pc = "done"
  /\ parsed = DictV(<<Entry(StrV(ForecastKeys.forecast_horizon_weeks), IntV(4)),
                      Entry(StrV(ForecastKeys.predictions), ListV(<<>>))>>)
  /\ forecast_data =
       DictV(<<Entry(StrV(ForecastKeys.forecast_horizon_weeks), IntV(4)),
               Entry(StrV(ForecastKeys.predictions), ListV(<<>>)),
               Entry(StrV(ForecastKeys.monthly_predicted_attacks), IntV(0)),
               Entry(StrV(ForecastKeys.predicted_threat_types), ListV(<<>>)),
               Entry(StrV(ForecastKeys.key_signals_user_friendly), ListV(<<>>)),
               Entry(StrV(ForecastKeys.metadata),
                     DictV(<<Entry(StrV(ForecastKeys.forecast_generated_at_utc),
                                   StrV(UtcNowIso(today)))>>))>>)

\* the week_start of element i of a list of predictions, None when it has none
WeekStartOf(preds, i) ==
  IF HasKey(preds.items[i].v, ForecastKeys.week_start)
  THEN Lookup(preds.items[i].v, ForecastKeys.week_start)
  ELSE NoneV

\* C7 as stated: in every output of post-processing, element i of predictions
\* (counted from 0) has week_start = the UTC date of the call + 7 * i days
C7_EveryWeekStartForced ==
  (pc = "done" /\ HasKey(forecast_data, ForecastKeys.predictions)) =>
    LET Forced(preds) ==
          preds.t = "list" =>
            \A i \in 1..Len(preds.items) :
              WeekStartOf(preds, i) = StrV(IsoFormat(today + 7 * (i - 1)))
    IN  Forced(Lookup(forecast_data, ForecastKeys.predictions))

\* C7 as amended: in every output of post-processing whose predictions are a
\* list, each element that is an object has week_start = the UTC date of the
\* call + 7 * i days, i its position counted from 0, whatever week_start it
\* had; an element that is not an object is left as it was
C7_ObjectWeekStartsForced ==
  (pc = "done" /\ HasKey(forecast_data, ForecastKeys.predictions)) =>
    LET Forced(preds, before) ==
          preds.t = "list" =>
            /\ Len(preds.items) = Len(before.items)
            /\ \A i \in 1..Len(preds.items) :
                 IF preds.items[i].v.t = "dict"
                 THEN WeekStartOf(preds, i) = StrV(IsoFormat(today + 7 * (i - 1)))
                 ELSE preds.items[i] = before.items[i]
    IN  Forced(Lookup(forecast_data, ForecastKeys.predictions), Lookup(parsed, ForecastKeys.predictions))

C7_Witness ==
  /\ pc = "done"
  /\ today = 20449
  /\ parsed = DictV(<<Entry(StrV(ForecastKeys.predictions), Predictions(<<P_Full, P_NoCount>>))>>)
  /\ WeekStartOf(Lookup(forecast_data, ForecastKeys.predictions), 1)
       = StrV(<<"2", "0", "2", "5", "-", "1", "2", "-", "2", "7">>)
  /\ WeekStartOf(Lookup(forecast_data, ForecastKeys.predictions), 2)
       = StrV(<<"2", "0", "2", "6", "-", "0", "1", "-", "0", "3">>)

(***************************************************************************)
(* Properties of the iterative compression                                 *)
(***************************************************************************)
\* C8: after every compression pass the latest current_keep original weeks
\* are still original weekly records: none was folded into a summary record,
\* and so no summary record stands where a recent week is kept
C8_RecentWeeksNeverSummarised ==
  passes # <<>> =>
    LET Kept(k, n) ==
          \A w \in Max(1, n - k + 1)..n :
            \E x \in 1..Len(feature_records) :
              ~IsSummary(feature_records[x]) /\ feature_records[x].covers = {w}
    IN  Kept(passes[Len(passes)], Len(original_records))

\* C9: with 8 weekly records and a budget of 50 tokens, which is never met,
\* compression ends with the most recent original week and one summary
\* record, and the final estimate is at most that of the original records
C9_TinyBudgetEndsAtKeepOne ==
  (fpc \in {"dispatch", "returned", "called"} /\ Len(original_records) = 8
     /\ max_input_tokens = 50) =>
    /\ Len(feature_records) = 2
    /\ \E x \in 1..Len(feature_records) :
         ~IsSummary(feature_records[x]) /\ feature_records[x].covers = {8}
    /\ \E x \in 1..Len(feature_records) :
         IsSummary(feature_records[x]) /\ feature_records[x].covers = 1..7
    /\ input_tokens <= estimate_prompt_and_cost(original_records, forecast_weeks,
                                                ExpectedOutputTokens, FALSE).estimated_input_tokens

\* C15: with dry_run set, get_threat_forecast is never called, on the paths
\* with and without compression, and the estimate returned has a total of at
\* least one token: the input tokens of the last estimate plus the expected
\* output tokens
C15_DryRunNeverCallsLLM ==
  dry_run =>
    /\ llm_calls = 0
    /\ fpc # "called"
    /\ fpc = "returned" =>
         /\ result.kind = "dry-run"
         /\ result.estimated = estimate
         /\ result.estimated.estimated_total_tokens >= 1
         /\ result.estimated.estimated_total_tokens = input_tokens + ExpectedOutputTokens

C15_Witness ==
  /\ dry_run
  /\ fpc = "returned"
  /\ Len(passes) >= 2
  /\ llm_calls = 0
  /\ result.estimated.estimated_total_tokens >= 1

(***************************************************************************)
(* C16: compress_feature_records is idempotent for a fixed                 *)
(* keep_recent_weeks of at least one: compressing its own output again     *)
(* gives back the same records, so neither the number of records nor any   *)
(* list length goes down a second time.  Checked on every record list the  *)
(* pipeline holds, the original ones and the ones already compressed.      *)
(***************************************************************************)
C16_CompressIdempotent ==
  \A k \in 1..MaxKeep :
    LET Again(once) == compress_feature_records(once, k) = once
    IN  Again(compress_feature_records(feature_records, k))

\* the records were merged by a pass with keep k and a second pass with the
\* same k leaves them alone
C16_Witness ==
  /\ passes # <<>>
  /\ Len(feature_records) < Len(original_records)
  /\ Len(feature_records) = passes[Len(passes)] + 1
  /\ compress_feature_records(feature_records, passes[Len(passes)]) = feature_records

(***************************************************************************)
(* C17: weekly aggregation completes for every event sequence whose detail *)
(* blobs are null, malformed JSON or well-formed objects: no malformed     *)
(* blob makes it fail, and a malformed blob counts as a null one does,     *)
(* with the default cvss and no tags.                                      *)
(***************************************************************************)
\* the blob is null, is no JSON at all, or is a JSON object
NullMalformedOrObject(x) ==
  \/ ~x.some
  \/ LET Shape(r) == ~r.ok \/ r.val.t = "dict" IN Shape(json_loads(x.text))

\* the events with every malformed blob replaced by a null one
MalformedAsNull(df) ==
  [i \in 1..Len(df) |->
     IF df[i].data.some /\ ~json_loads(df[i].data.text).ok
     THEN [df[i] EXCEPT !.data = NoneText] ELSE df[i]]

C17_MalformedBlobsTolerated ==
  (/\ apc \in {"done", "raised"}
   /\ \A i \in 1..Len(events) : NullMalformedOrObject(events[i].data)) =>
    /\ apc = "done"
    /\ agg = aggregate_weekly_worldwide(MalformedAsNull(events)).val

(***************************************************************************)
(* C18: two invocations that both reach the terminal failure and both      *)
(* write their raw response leave two files in llm_responses, each under   *)
(* its own name and with its own text, whatever their relative timing.     *)
(***************************************************************************)
C18_DumpsNeverCollide ==
  (/\ Len(invocations) = 2
   /\ invocations[1].fname.some
   /\ invocations[2].fname.some) =>
    /\ invocations[1].fname.name # invocations[2].fname.name
    /\ \A i \in 1..2 :
         [name |-> invocations[i].fname.name,
          content |-> invocations[i].response_text] \in dump_files

(***************************************************************************)
(* C19: the largest-balanced-block strategy looks at every top-level       *)
(* balanced block of the whole response, parses each, and its result is    *)
(* the parse of the longest block that parses; when the longest block does *)
(* not parse and a shorter one does, the shorter one is the result.        *)
(***************************************************************************)
\* the top-level balanced blocks of the text, in the order the scan closes them
BalancedSpans(s) ==
  LET Texts(res) == [k \in 1..Len(res) |-> SubSeq(s, res[k][1], res[k][2])]
  IN  Texts(flb_state(s, Len(s)).results)

\* v is the parse of a longest block among those that parse, None if none does
IsLongestParse(v, spans) ==
  LET Among(ok) ==
        IF ok = {} THEN v = NoneV
        ELSE \E k \in ok : /\ \A j \in ok : Len(spans[j]) <= Len(spans[k])
                           /\ v = JsonThenLiteral(spans[k])
  IN  Among({k \in 1..Len(spans) : JsonThenLiteral(spans[k]) # NoneV})

C19_LongestParsingSpanWins ==
  (/\ "largest" \in tried
   /\ "repair" \notin tried
   /\ "autoclose" \notin tried
   /\ pc \in {"autoclose", "recovered"}) =>
    IsLongestParse(parsed, BalancedSpans(response_text))

(***************************************************************************)
(* C20: whenever auto-close runs, the largest-balanced-block search has    *)
(* been attempted before it, and no earlier strategy had produced a parse: *)
(* the value recovered is that of the first strategy that succeeded.       *)
(***************************************************************************)
C20_LargestTriedBeforeAutoClose ==
  "autoclose" \in tried =>
    /\ "largest" \in tried
    /\ via \in {"", "autoclose"}

(***************************************************************************)
(* C21: the compression phase of forecast_threats terminates.  The loop    *)
(* makes at most keep_recent_weeks - 1 compress passes, each pass that     *)
(* stays over budget lowering current_keep, then the aggressive truncation *)
(* runs at most once and forecast_threats goes on to the dry-run return or *)
(* the call of the LLM, over budget or not.  Termination is stated with a  *)
(* rank: every step lowers it, it is never negative, and short of the end  *)
(* there is always a step to take.                                         *)
(***************************************************************************)
PhaseRank ==
  CASE fpc = "estimate" -> Max(keep_recent_weeks, 1) + 3
    [] fpc = "loop"     -> Max(current_keep, 1) + 2
    [] fpc = "trim"     -> 2
    [] fpc = "dispatch" -> 1
    [] OTHER            -> 0

PassesBounded ==
  /\ Len(passes) <= keep_recent_weeks - 1
  /\ \A i \in 1..Len(passes) : passes[i] = keep_recent_weeks - (i - 1)
  /\ fpc \in {"estimate", "loop", "trim", "dispatch", "returned", "called"}
  /\ PhaseRank >= 0
  /\ PhaseRank = 0 <=> fpc \in {"returned", "called"}

C21_CompressionTerminates ==
  /\ []PassesBounded
  /\ [][PhaseRank' < PhaseRank]_vars
  /\ [][fpc = "trim" => fpc' = "dispatch"]_vars

\* every pass was made, the truncation ran, the estimate is still over budget
\* and the LLM was called all the same
C21_Witness ==
  /\ fpc = "called"
  /\ keep_recent_weeks >= 3
  /\ Len(passes) = keep_recent_weeks - 1
  /\ input_tokens > max_input_tokens
  /\ \E x \in 1..Len(original_records) : Len(original_records[x].top_tags) > 2
  /\ \A x \in 1..Len(feature_records) : Len(feature_records[x].top_tags) <= 2

(***************************************************************************)
(* C22: in the merge branch of compress_feature_records the last           *)
(* keep_recent_weeks input records come out untouched, every field and the *)
(* full top_cves, top_tags and top_countries lists included; only the      *)
(* older records are replaced, by one summary record.  Checked on the      *)
(* first pass of the loop, whose input is original_records.                *)
(***************************************************************************)
C22_RecentRecordsUntouched ==
  (/\ Len(passes) = 1
   /\ fpc \in {"loop", "trim"}
   /\ Len(original_records) > passes[1] + 1) =>
    /\ Len(feature_records) = passes[1] + 1
    /\ \A j \in 1..passes[1] :
         feature_records[j] = original_records[Len(original_records) - passes[1] + j]

(***************************************************************************)
(* C23: a derived key_signals_user_friendly has one entry per distinct     *)
(* (signal_type, id) pair of the predictions' top_signals, carrying the    *)
(* summed score of the pair (normalised over the entries kept); it keeps   *)
(* the 8 pairs of highest summed score in descending order, pairs of equal *)
(* summed score in first-seen order, so that at the cut-off between 8th    *)
(* and 9th the pair seen first is the one kept.                            *)
(***************************************************************************)
SignalPair(s) ==
  <<PyGet(s, ForecastKeys.signal_type, NoneV).val, PyGet(s, ForecastKeys.id, NoneV).val>>

SignalScore(s) == PyFloat(PyGet(s, ForecastKeys.score, IntV(0)).val).val

\* ks is the list the claim describes for signals of the given pairs and scores
IsKeySignalList(ks, pairs, scores) ==
  LET n      == Len(pairs)
      firsts == {x \in 1..n : \A y \in 1..(x - 1) : pairs[y] # pairs[x]}
      Placed(totals) ==
        LET Place(x) == 1 + Cardinality({y \in firsts :
                                           \/ totals[y] > totals[x]
                                           \/ totals[y] = totals[x] /\ y < x})
            Kept(kept) ==
              LET Scored(keptsum) ==
                    /\ ks.t = "list"
                    /\ Len(ks.items) = Cardinality(kept)
                    /\ \A x \in kept :
                         LET Entry8(e) ==
                               /\ e.t = "dict"
                               /\ HasKey(e, ForecastKeys.label)
                               /\ HasKey(e, ForecastKeys.type)
                               /\ HasKey(e, ForecastKeys.score)
                               /\ Lookup(e, ForecastKeys.type) = pairs[x][1]
                               /\ Lookup(e, ForecastKeys.label) =
                                    SignalLabel(pairs[x][1], pairs[x][2]).val
                               /\ Lookup(e, ForecastKeys.score) =
                                    FloatV(Round3(totals[x],
                                                  IF keptsum = 0 THEN 1000 ELSE keptsum))
                         IN  Entry8(ks.items[Place(x)].v)
              IN  Scored(SumSeq([y \in 1..n |-> IF y \in kept THEN totals[y] ELSE 0]))
        IN  Kept({x \in firsts : Place(x) <= 8})
  IN  Placed([x \in 1..n |->
                SumSeq([y \in 1..n |-> IF pairs[y] = pairs[x] THEN scores[y] ELSE 0])])

\* the claim, for the signals sigs of the recovered object
KeySignalsAsClaimed(ks, sigs) ==
  IsKeySignalList(ks, [y \in 1..Len(sigs) |-> SignalPair(sigs[y].v)],
                      [y \in 1..Len(sigs) |-> SignalScore(sigs[y].v)])

C24_PromptNamesTheHorizon ==
  fpc = "called" => user_message.forecast_weeks = forecast_weeks

(***************************************************************************)
(* C25: the user prompt sent to the LLM is the prompt whose estimate was   *)
(* last compared with max_input_tokens: the same records in the same       *)
(* serialisation, hence of the same token count, and within the budget     *)
(* whenever that estimate was.                                             *)
(***************************************************************************)
C25_SentPromptIsTheEstimatedOne ==
  fpc = "called" =>
    /\ user_message.records = feature_records
    /\ user_message.chars = estimate.input_chars
    /\ count_tokens(user_message.chars) = input_tokens
    /\ input_tokens <= max_input_tokens =>
         count_tokens(user_message.chars) <= max_input_tokens

(***************************************************************************)
(* C26: every call of compress_feature_records the loop of                 *)
(* forecast_threats makes, and so every state of the compression phase,    *)
(* keeps the totals over all records: the sum of count_last_week over the  *)
(* records held equals the sum over the records the phase started with,    *)
(* and the same for unique_cves.                                           *)
(***************************************************************************)
TotalCount(records) == SumSeq([x \in 1..Len(records) |-> records[x].count_last_week])

TotalUniqueCves(records) == SumSeq([x \in 1..Len(records) |-> records[x].unique_cves])

C26_CompressionKeepsTotals ==
  /\ TotalCount(feature_records) = TotalCount(original_records)
  /\ TotalUniqueCves(feature_records) = TotalUniqueCves(original_records)

\* two merging passes over records with counts, the totals still those of the input
C26_Witness ==
  /\ Len(passes) >= 2
  /\ Len(feature_records) = passes[Len(passes)] + 1
  /\ Len(feature_records) < Len(original_records)
  /\ IsSummary(feature_records[Len(feature_records)])
  /\ TotalCount(original_records) > 0
  /\ TotalCount(feature_records) = TotalCount(original_records)
  /\ TotalUniqueCves(feature_records) = TotalUniqueCves(original_records)

(***************************************************************************)
(* C27: auto-close appends closers that match the unmatched openers in     *)
(* reverse order of opening.  For every response that is a valid JSON      *)
(* object cut off outside a string right after a complete value, the       *)
(* closed candidate is the object itself up to its closers, it parses, and *)
(* auto-close recovers the value of the whole object.                      *)
(***************************************************************************)
\* a nested object, whole
O_Nested ==
  <<"{", DQ, "a", DQ, ":", "[", "{", DQ, "b", DQ, ":", "1", "}", "]", "}">>
FullObjects == {T_Valid, O_Nested}

\* p is o cut off after a complete value: what is missing is closers only
IsTruncationOf(p, o) ==
  /\ Len(p) < Len(o)
  /\ Len(p) > 0
  /\ SubSeq(o, 1, Len(p)) = p
  /\ \A i \in (Len(p) + 1)..Len(o) : o[i] \in {"}", "]"}
  /\ p[Len(p)] \notin {"{", "[", ",", ":"}

C27_AutoCloseMatchesOpeners ==
  \A o \in FullObjects :
    ("autoclose" \in tried /\ IsTruncationOf(response_text, o)) =>
      /\ ac_candidate(response_text) = o
      /\ via = "autoclose"
      /\ parsed = json_loads(o).val

(***************************************************************************)
(* C28: post-processing leaves monthly_predicted_attacks,                  *)
(* predicted_threat_types and key_signals_user_friendly exactly as they    *)
(* were recovered whenever the key is present in the recovered object,     *)
(* whatever its value, and within each prediction it changes no field      *)
(* other than week_start.                                                  *)
(***************************************************************************)
DerivedKeys ==
  {ForecastKeys.monthly_predicted_attacks, ForecastKeys.predicted_threat_types,
   ForecastKeys.key_signals_user_friendly}

\* the fields of a prediction other than week_start, in their order
OtherFields(p) ==
  SelectSeq(p.items, LAMBDA e : e.k # StrV(ForecastKeys.week_start))

\* after is before, week_start of the object elements aside
SameButWeekStart(after, before) ==
  IF before.t \in {"list", "tuple"}
  THEN /\ after.t = before.t
       /\ Len(after.items) = Len(before.items)
       /\ \A i \in 1..Len(before.items) :
            IF before.items[i].v.t = "dict"
            THEN /\ after.items[i].v.t = "dict"
                 /\ OtherFields(after.items[i].v) = OtherFields(before.items[i].v)
            ELSE after.items[i] = before.items[i]
  ELSE after = before

C28_DerivedKeysAndPredictionsKept ==
  (pc \in PostPcs /\ parsed.t = "dict") =>
    /\ forecast_data.t = "dict"
    /\ \A key \in DerivedKeys :
         HasKey(parsed, key) =>
           /\ HasKey(forecast_data, key)
           /\ Lookup(forecast_data, key) = Lookup(parsed, key)
    /\ HasKey(parsed, ForecastKeys.predictions) =>
         /\ HasKey(forecast_data, ForecastKeys.predictions)
         /\ SameButWeekStart(Lookup(forecast_data, ForecastKeys.predictions),
                             Lookup(parsed, ForecastKeys.predictions))
    /\ HasKey(forecast_data, ForecastKeys.predictions) => HasKey(parsed, ForecastKeys.predictions)

\* a finished run on an object that came with the three keys and two
\* predictions: the keys are as recovered, the first week_start is not
C28_Witness ==
  /\ pc = "done"
  /\ parsed = DictV(<<Entry(StrV(ForecastKeys.predictions), Predictions(<<P_Full, P_Kev>>)),
                      Entry(StrV(ForecastKeys.monthly_predicted_attacks), IntV(9)),
                      Entry(StrV(ForecastKeys.predicted_threat_types), ListV(<<>>)),
                      Entry(StrV(ForecastKeys.key_signals_user_friendly), ListV(<<>>))>>)
  /\ MonthlySum(parsed) # 9
  /\ Lookup(forecast_data, ForecastKeys.monthly_predicted_attacks) = IntV(9)
  /\ Lookup(forecast_data, ForecastKeys.key_signals_user_friendly) = ListV(<<>>)
  /\ WeekStartOf(Lookup(forecast_data, ForecastKeys.predictions), 1)
       # WeekStartOf(Lookup(parsed, ForecastKeys.predictions), 1)
  /\ WeekStartOf(Lookup(forecast_data, ForecastKeys.predictions), 2) # NoneV

(***************************************************************************)
(* The per-IP rate limiter of forecast_threats_api                         *)
(*                                                                         *)
(* Requests of one client IP run side by side, as the worker threads of    *)
(* the server run them.  cache.get and cache.set are one step each; the    *)
(* comparison between them is local to the request.                        *)
(***************************************************************************)
\* bound on the requests of the client that are in flight
MaxRequests == 3
\* bound on the configured max_requests
MaxLimit == 2

Request == [pc |-> "get", current |-> 0]

\* current = cache.get(rl_key, 0)
LimiterGet(r) ==
  /\ requests[r].pc = "get"
  /\ requests' = [requests EXCEPT ![r].pc = "check", ![r].current = rl_count]
  /\ UNCHANGED <<max_requests, rl_count, admitted>>
  /\ UNCHANGED <<recover_vars, pipeline_vars, aggregate_vars, dump_vars, latest_vars>>

\* if current >= max_requests: return the 429 response
LimiterReject(r) ==
  /\ requests[r].pc = "check"
  /\ requests[r].current >= max_requests
  /\ requests' = [requests EXCEPT ![r].pc = "rejected"]
  /\ UNCHANGED <<max_requests, rl_count, admitted>>
  /\ UNCHANGED <<recover_vars, pipeline_vars, aggregate_vars, dump_vars, latest_vars>>

\* else: cache.set(rl_key, current + 1, timeout=window_seconds), and the
\* request goes on to the forecast
LimiterAdmit(r) ==
  /\ requests[r].pc = "check"
  /\ requests[r].current < max_requests
  /\ rl_count' = requests[r].current + 1
  /\ admitted' = IF rl_count = 0 THEN 1 ELSE admitted + 1
  /\ requests' = [requests EXCEPT ![r].pc = "admitted"]
  /\ UNCHANGED max_requests
  /\ UNCHANGED <<recover_vars, pipeline_vars, aggregate_vars, dump_vars, latest_vars>>

\* the timeout of rl_key runs out: the key is gone and a new window starts
LimiterExpire ==
  /\ rl_count # 0
  /\ rl_count' = 0
  /\ admitted' = 0
  /\ UNCHANGED <<max_requests, requests>>
  /\ UNCHANGED <<recover_vars, pipeline_vars, aggregate_vars, dump_vars, latest_vars>>

LimiterNext ==
  \/ \E r \in 1..MaxRequests : LimiterGet(r)
  \/ \E r \in 1..MaxRequests : LimiterReject(r)
  \/ \E r \in 1..MaxRequests : LimiterAdmit(r)
  \/ LimiterExpire

LimiterInit ==
  /\ RecoverIdle
  /\ PipelineIdle
  /\ AggregateIdle
  /\ DumpIdle
  /\ LatestIdle
  /\ max_requests \in 1..MaxLimit
  /\ rl_count = 0
  /\ requests = [r \in 1..MaxRequests |-> Request]
  /\ admitted = 0

\* concurrent requests of one client IP at the limiter
SpecLimiter == LimiterInit /\ [][LimiterNext]_vars

(***************************************************************************)
(* C29: under any interleaving of concurrent requests from one client IP,  *)
(* the number of requests that pass the limiter check while the counter    *)
(* key is live never exceeds max_requests.                                 *)
(***************************************************************************)
C29_LimiterAdmitsAtMostMax ==
  admitted <= max_requests

(***************************************************************************)
(* The latest forecast: the cache file and the in-memory entry             *)
(*                                                                         *)
(* A forecast run (forecast_threats_api, or Command.handle of              *)
(* run_forecast) stamps generated_at, writes FORECAST_CACHE_FILE and sets  *)
(* the in-memory entry.  get_latest_forecast reads the entry, falls back   *)
(* to the file and populates the entry.  Forecasts are numbered in the     *)
(* order of generated_at.  Every cache and file operation is one step.     *)
(***************************************************************************)
\* bound on the forecast runs
MaxRuns == 2
\* bound on the get_latest_forecast requests
MaxReaders == 2

Run == [pc |-> "generate", forecast_result |-> 0]
Reader == [pc |-> "get", floor |-> 0, forecast_data |-> 0, status |-> 0, body |-> 0]

\* forecast_result[generated_at] = datetime.now().isoformat()
RunGenerate(r) ==
  /\ runs[r].pc = "generate"
  /\ generated' = generated + 1
  /\ runs' = [runs EXCEPT ![r].pc = "open", ![r].forecast_result = generated + 1]
  /\ UNCHANGED <<cache_file, latest_forecast, readers, stored>>
  /\ UNCHANGED <<recover_vars, pipeline_vars, aggregate_vars, dump_vars, limiter_vars>>

\* open(FORECAST_CACHE_FILE, w): the file exists and is empty
RunOpen(r) ==
  /\ runs[r].pc = "open"
  /\ cache_file' = TruncatedFile
  /\ runs' = [runs EXCEPT ![r].pc = "dump"]
  /\ UNCHANGED <<latest_forecast, readers, generated, stored>>
  /\ UNCHANGED <<recover_vars, pipeline_vars, aggregate_vars, dump_vars, limiter_vars>>

\* json.dump(forecast_result, f, indent=2) and the close of the file
RunDump(r) ==
  /\ runs[r].pc = "dump"
  /\ cache_file' = FileOf(runs[r].forecast_result)
  /\ runs' = [runs EXCEPT ![r].pc = "set"]
  /\ UNCHANGED <<latest_forecast, readers, generated, stored>>
  /\ UNCHANGED <<recover_vars, pipeline_vars, aggregate_vars, dump_vars, limiter_vars>>

\* cache.set(latest_forecast, forecast_result, timeout=ttl): the store is finished
RunSet(r) ==
  /\ runs[r].pc = "set"
  /\ latest_forecast' = runs[r].forecast_result
  /\ stored' = Max(stored, runs[r].forecast_result)
  /\ runs' = [runs EXCEPT ![r].pc = "done"]
  /\ UNCHANGED <<cache_file, readers, generated>>
  /\ UNCHANGED <<recover_vars, pipeline_vars, aggregate_vars, dump_vars, limiter_vars>>

\* the timeout of the in-memory entry runs out
MemoryExpire ==
  /\ latest_forecast # 0
  /\ latest_forecast' = 0
  /\ UNCHANGED <<cache_file, runs, readers, generated, stored>>
  /\ UNCHANGED <<recover_vars, pipeline_vars, aggregate_vars, dump_vars, limiter_vars>>

\* cached = cache.get(latest_forecast); if cached: return Response(cached, 200).
\* The request starts here: floor is the newest forecast stored by then
ReaderGet(q) ==
  /\ readers[q].pc = "get"
  /\ readers' = [readers EXCEPT
                   ![q].floor = stored,
                   ![q].pc = IF latest_forecast # 0 THEN "done" ELSE "exists",
                   ![q].status = IF latest_forecast # 0 THEN 200 ELSE 0,
                   ![q].body = latest_forecast]
  /\ UNCHANGED <<cache_file, latest_forecast, runs, generated, stored>>
  /\ UNCHANGED <<recover_vars, pipeline_vars, aggregate_vars, dump_vars, limiter_vars>>

\* if not os.path.exists(FORECAST_CACHE_FILE): return the 404 response
ReaderExists(q) ==
  /\ readers[q].pc = "exists"
  /\ readers' = [readers EXCEPT
                   ![q].pc = IF cache_file.exists THEN "load" ELSE "done",
                   ![q].status = IF cache_file.exists THEN 0 ELSE 404]
  /\ UNCHANGED <<cache_file, latest_forecast, runs, generated, stored>>
  /\ UNCHANGED <<recover_vars, pipeline_vars, aggregate_vars, dump_vars, limiter_vars>>

\* forecast_data = json.load(f); a file that is not whole JSON raises, and
\* the outer except returns the 500 response
ReaderLoad(q) ==
  /\ readers[q].pc = "load"
  /\ readers' = [readers EXCEPT
                   ![q].pc = IF cache_file.complete THEN "populate" ELSE "done",
                   ![q].status = IF cache_file.complete THEN 0 ELSE 500,
                   ![q].forecast_data = cache_file.forecast]
  /\ UNCHANGED <<cache_file, latest_forecast, runs, generated, stored>>
  /\ UNCHANGED <<recover_vars, pipeline_vars, aggregate_vars, dump_vars, limiter_vars>>

\* cache.set(latest_forecast, forecast_data, timeout=ttl); return
\* Response(forecast_data, 200)
ReaderPopulate(q) ==
  /\ readers[q].pc = "populate"
  /\ latest_forecast' = readers[q].forecast_data
  /\ readers' = [readers EXCEPT ![q].pc = "done", ![q].status = 200,
                                ![q].body = readers[q].forecast_data]
  /\ UNCHANGED <<cache_file, runs, generated, stored>>
  /\ UNCHANGED <<recover_vars, pipeline_vars, aggregate_vars, dump_vars, limiter_vars>>

LatestNext ==
  \/ \E r \in 1..MaxRuns : RunGenerate(r)
  \/ \E r \in 1..MaxRuns : RunOpen(r)
  \/ \E r \in 1..MaxRuns : RunDump(r)
  \/ \E r \in 1..MaxRuns : RunSet(r)
  \/ MemoryExpire
  \/ \E q \in 1..MaxReaders : ReaderGet(q)
  \/ \E q \in 1..MaxReaders : ReaderExists(q)
  \/ \E q \in 1..MaxReaders : ReaderLoad(q)
  \/ \E q \in 1..MaxReaders : ReaderPopulate(q)

LatestInit ==
  /\ RecoverIdle
  /\ PipelineIdle
  /\ AggregateIdle
  /\ DumpIdle
  /\ LimiterIdle
  /\ cache_file = NoFile
  /\ latest_forecast = 0
  /\ runs = [r \in 1..MaxRuns |-> Run]
  /\ readers = [q \in 1..MaxReaders |-> Reader]
  /\ generated = 0
  /\ stored = 0

\* forecast runs and get_latest_forecast requests side by side
SpecLatest == LatestInit /\ [][LatestNext]_vars

(***************************************************************************)
(* C30: once a forecast run has finished storing forecast F, every         *)
(* get_latest_forecast request that starts afterwards returns F or a newer *)
(* forecast, whatever other request is interleaved with it.                *)
(***************************************************************************)
C30_LatestNeverOlderThanStored ==
  \A q \in 1..MaxReaders :
    (readers[q].pc = "done" /\ readers[q].floor > 0) =>
      /\ readers[q].status = 200
      /\ readers[q].body >= readers[q].floor

====
